---- MODULE Spec2Model ----
(***************************************************************************)
(* Model of the geospatial supply/demand aggregation engine of P2G_2.1.    *)
(*                                                                         *)
(* Part I   LandUseMap: the land-use fetch effect and                      *)
(*          fetchOverpassWithBackoff (src/src/LandUseMap.jsx, and the      *)
(*          older copy kept in src/src/App.jsx).                           *)
(* Part II  The dataset hooks of src/src/hooks/useLocationsData.js (both   *)
(*          copies kept in that file).                                     *)
(*                                                                         *)
(* JavaScript runs one task at a time: an action of the model is one task  *)
(* of the event loop (a React commit, a timer, the settling of a network   *)
(* request) together with the promise continuations it triggers, which run *)
(* as microtasks before the next task.                                     *)
(*                                                                         *)
(* Angles are integers in units of 1e-7 degree, distances in metres.       *)
(***************************************************************************)
EXTENDS Integers, Sequences, FiniteSets, TLC

VARIABLES
    variant,        \* "new": src/src/LandUseMap.jsx, "old": the copy in src/src/App.jsx
    mounted,        \* the LandUseMap instance is mounted
    props,          \* the props of the last render
    abortRef,       \* abortRef.current: 0 (null) or the request owning the controller
    curReq,         \* the request whose cleanup the last effect run returned (0: none)
    reqs,           \* every request the effect created, in creation order
    overpassCache,  \* module-level Map: cache key -> response
    updates,        \* the calls of onDataUpdate made so far
    effectRuns,     \* number of effect runs so far
    circleMemo,     \* useMemo of circleBoxes: the key of its last computation, its value
    hook,           \* the dataset hook under study (fixed in a behaviour)
    hmounted,       \* the component using the hook is mounted
    hargs,          \* the arguments of the hook at the last render
    hstate,         \* the React state the hook returns
    loads,          \* every load the hook's effect started, in order
    curLoad,        \* the load whose cleanup the last effect run returned (0: none)
    cacheByUrl,     \* _cacheByUrl: url -> parsed rows
    promiseByUrl,   \* _promiseByUrl: the urls with a fetch in flight
    hookRuns,       \* number of effect runs of the hook so far
    net,            \* url -> number of network fetches loadCSV has in flight
    fn,             \* the pure function applied last ("none": none yet)
    arg,            \* its argument
    out             \* its result

mapVars == <<variant, mounted, props, abortRef, curReq, reqs, overpassCache, updates,
             effectRuns, circleMemo>>

hookVars == <<hook, hmounted, hargs, hstate, loads, curLoad, cacheByUrl, promiseByUrl,
              hookRuns, net>>

pureVars == <<fn, arg, out>>

vars == <<mapVars, hookVars, pureVars>>

\* No pure function has been applied.
PureIdle ==
    /\ fn = "none"
    /\ arg = <<>>
    /\ out = <<>>

(***************************************************************************)
(* Bounds of the model.                                                    *)
(***************************************************************************)
MaxEffectRuns == 2

(***************************************************************************)
(* Program constants.                                                      *)
(***************************************************************************)
maxAttemptsNew == 4
maxAttemptsOld == 5

Variants == {"new", "old"}

LANDUSE_COLORS == {"farmland", "plantation", "orchard", "vineyard",
                   "greenhouse_horticulture"}

OVERPASS_ENDPOINTS == <<"overpass.kumi.systems", "overpass-api.de", "z.overpass-api.de">>

NumEndpoints == Len(OVERPASS_ENDPOINTS)

(***************************************************************************)
(* Inputs: supply points, radii, toggles.                                  *)
(***************************************************************************)
\* One degree, in units of 1e-7 degree.
Deg == 10 * 1000000

PtA == [lat |-> 60 * Deg, lon |-> 10 * Deg]
PtA2 == [lat |-> 60 * Deg, lon |-> 10 * Deg + 100]
PtB == [lat |-> 0, lon |-> 20 * Deg]

PropsSet ==
    { [tags |-> {"farmland"},            pts |-> <<PtA>>,      r |-> 2000],
      [tags |-> {"farmland"},            pts |-> <<PtA2>>,     r |-> 2000],
      [tags |-> {"farmland", "orchard"}, pts |-> <<PtA, PtB>>, r |-> 2000],
      [tags |-> {},                      pts |-> <<PtA>>,      r |-> 2000],
      [tags |-> {"farmland"},            pts |-> <<>>,         r |-> 2000],
      [tags |-> {"farmland"},            pts |-> <<PtA>>,      r |-> 0] }

(***************************************************************************)
(* The documents the geodata service can answer with (after osmtogeojson). *)
(***************************************************************************)
Responses == {"G1", "G2"}

Features(g) ==
    IF g = "G1"
    THEN { [id |-> 1, lu |-> "farmland", gtype |-> "Polygon", area |-> 300,
            c |-> [lat |-> 60 * Deg + 50000, lon |-> 10 * Deg + 50000]],
           [id |-> 2, lu |-> "orchard", gtype |-> "MultiPolygon", area |-> 700,
            c |-> [lat |-> 1000, lon |-> 20 * Deg]],
           [id |-> 3, lu |-> "farmland", gtype |-> "LineString", area |-> 0,
            c |-> [lat |-> 60 * Deg, lon |-> 10 * Deg]] }
    ELSE { [id |-> 4, lu |-> "farmland", gtype |-> "Polygon", area |-> 500,
            c |-> [lat |-> 60 * Deg, lon |-> 10 * Deg + 1000]],
           [id |-> 5, lu |-> "farmland", gtype |-> "Polygon", area |-> 100,
            c |-> [lat |-> 61 * Deg, lon |-> 10 * Deg]],
           [id |-> 6, lu |-> "vineyard", gtype |-> "Polygon", area |-> 200,
            c |-> [lat |-> 60 * Deg, lon |-> 10 * Deg]],
           [id |-> 7, lu |-> "farmland", gtype |-> "Polygon", area |-> 0,
            c |-> [lat |-> 60 * Deg, lon |-> 10 * Deg]] }

(***************************************************************************)
(* Geometry helpers.                                                       *)
(***************************************************************************)
Abs(x) == IF x < 0 THEN -x ELSE x

Min2(a, b) == IF a <= b THEN a ELSE b

Max2(a, b) == IF a >= b THEN a ELSE b

\* Math.cos(lat * PI / 180) || 1, times 1000, for the latitudes of the inputs.
CosMilli(lat) ==
    IF Abs(lat) >= 55 * Deg /\ Abs(lat) <= 65 * Deg THEN 500 ELSE 1000

\* r / 111 degrees, r in metres.
LatPad(r) == (r * 10000) \div 111

\* r / (111 * cos) degrees.
LonPad(r, lat) == (LatPad(r) * 1000) \div CosMilli(lat)

\* Number.isFinite(km) && km > 0 ? km : 0
SafeRadius(r) == IF r > 0 THEN r ELSE 0

RECURSIVE FoldBBox(_, _, _)
FoldBBox(pts, r, acc) ==
    IF pts = <<>> THEN acc
    ELSE LET p == Head(pts)
             latPad == LatPad(r)
             lonPad == LonPad(r, p.lat)
             box == [south |-> p.lat - latPad, north |-> p.lat + latPad,
                     west |-> p.lon - lonPad, east |-> p.lon + lonPad]
             nxt == IF acc.none THEN [none |-> FALSE, south |-> box.south,
                                      north |-> box.north, west |-> box.west,
                                      east |-> box.east]
                    ELSE [none |-> FALSE,
                          south |-> Min2(acc.south, box.south),
                          north |-> Max2(acc.north, box.north),
                          west |-> Min2(acc.west, box.west),
                          east |-> Max2(acc.east, box.east)]
         IN FoldBBox(Tail(pts), r, nxt)

NoBBox == [none |-> TRUE, south |-> 0, north |-> 0, west |-> 0, east |-> 0]

\* bboxAroundCenters: null (none) without a valid point.
bboxAroundCenters(centers, radius) == FoldBBox(centers, SafeRadius(radius), NoBBox)

\* Number.prototype.toFixed(d): rounding to d decimals, as the integer of 1e-d units.
ToFixed4(x) == IF x >= 0 THEN (x + 500) \div 1000 ELSE -((-x + 500) \div 1000)

ToFixed6(x) == IF x >= 0 THEN (x + 5) \div 10 ELSE -((-x + 5) \div 10)

\* Number(searchRadiusKm || 0).toFixed(2): hundredths of a kilometre.
RadiusFixed2(r) == IF r >= 0 THEN (r + 5) \div 10 ELSE -((-r + 5) \div 10)

\* The cache key of the effect: tags, rounded bounding box, radius, point count.
CacheKeyNew(p) ==
    LET b == bboxAroundCenters(p.pts, p.r)
    IN <<"bbox|centroid+bbox", p.tags,
         <<ToFixed4(b.south), ToFixed4(b.west), ToFixed4(b.north), ToFixed4(b.east)>>,
         RadiusFixed2(p.r), Len(p.pts)>>

\* circlesSig of the older copy: number of circles and their bounding box, 6 decimals.
CacheKeyOld(p) ==
    LET b == bboxAroundCenters(p.pts, p.r)
    IN <<"circlesPolyPOST", p.tags, Len(p.pts),
         <<ToFixed6(b.west), ToFixed6(b.south), ToFixed6(b.east), ToFixed6(b.north)>>>>

CacheKey(v, p) == IF v = "new" THEN CacheKeyNew(p) ELSE CacheKeyOld(p)

\* One box per valid centre, whatever the radius.
buildCircleBBoxesAnyRadius(centers, radius) ==
    [i \in 1..Len(centers) |->
        [lat |-> centers[i].lat, lon |-> centers[i].lon,
         minLat |-> centers[i].lat - LatPad(radius),
         maxLat |-> centers[i].lat + LatPad(radius),
         minLon |-> centers[i].lon - LonPad(radius, centers[i].lat),
         maxLon |-> centers[i].lon + LonPad(radius, centers[i].lat)]]

\* buildCircleBBoxes: one box per valid centre, none for a radius that is not > 0.
buildCircleBBoxes(centers, radius) ==
    IF radius <= 0 THEN <<>>
    ELSE [i \in 1..Len(centers) |->
            [lat |-> centers[i].lat, lon |-> centers[i].lon,
             minLat |-> centers[i].lat - LatPad(radius),
             maxLat |-> centers[i].lat + LatPad(radius),
             minLon |-> centers[i].lon - LonPad(radius, centers[i].lat),
             maxLon |-> centers[i].lon + LonPad(radius, centers[i].lat)]]

\* circleBoxesKey: radius to 2 decimals, number of points, overall bounding box to 4
\* decimals.
circleBoxesKey(p) ==
    LET b == bboxAroundCenters(p.pts, p.r)
    IN <<"cb", RadiusFixed2(p.r), Len(p.pts),
         IF b.none THEN <<>>
         ELSE <<ToFixed4(b.south), ToFixed4(b.west), ToFixed4(b.north), ToFixed4(b.east)>>>>

\* The memo before the first render.
NoMemo == [key |-> <<>>, boxes |-> <<>>]

\* useMemo(() => buildCircleBBoxes(supplyCircleCenters, searchRadiusKm),
\* [circleBoxesKey]): computed again only when the key differs from the last one.
UseMemo(memo, p) ==
    IF memo.key = circleBoxesKey(p) THEN memo
    ELSE [key |-> circleBoxesKey(p), boxes |-> buildCircleBBoxes(p.pts, p.r)]

\* The circle list the effect's closure holds: the memo (the older copy has no memo
\* and clips to the circles of the current props).
ClosureCircles(v, memo, p) ==
    IF v = "new" THEN memo.boxes ELSE buildCircleBBoxes(p.pts, p.r)

\* Distance in metres between a centroid and a centre, squared (equirectangular
\* approximation of turf.distance; only evaluated inside a circle's bounding box).
DistSq(c, b) ==
    LET dy == ((c.lat - b.lat) * 111) \div 10000
        dx == ((((c.lon - b.lon) * 111) \div 10000) * CosMilli(b.lat)) \div 1000
    IN dy * dy + dx * dx

\* The centroid is inside every circle of the list.
centroidInsideEveryCircle(f, circleBoxes, radius) ==
    /\ radius > 0
    /\ \A i \in 1..Len(circleBoxes) :
         LET b == circleBoxes[i]
         IN /\ ~(f.c.lat < b.minLat \/ f.c.lat > b.maxLat \/
                 f.c.lon < b.minLon \/ f.c.lon > b.maxLon)
            /\ DistSq(f.c, b) <= radius * radius

\* centroidInsideAnyCircle: bounding box first, distance second, true at the first
\* circle that holds the centroid.
centroidInsideAnyCircle(f, circleBoxes, radius) ==
    /\ radius > 0
    /\ \E i \in 1..Len(circleBoxes) :
         LET b == circleBoxes[i]
         IN /\ ~(f.c.lat < b.minLat \/ f.c.lat > b.maxLat \/
                 f.c.lon < b.minLon \/ f.c.lon > b.maxLon)
            /\ DistSq(f.c, b) <= radius * radius

\* The filter of run(): the ids of the parcels that are kept.
KeptUnfiltered(g, p, circleBoxes) == {f.id : f \in Features(g)}

Kept(g, p, circleBoxes) ==
    { f.id : f \in { x \in Features(g) :
                       /\ x.lu \in p.tags
                       /\ x.gtype \in {"Polygon", "MultiPolygon"}
                       /\ centroidInsideAnyCircle(x, circleBoxes, p.r)
                       /\ x.area > 0 } }

(***************************************************************************)
(* Part I: requests of the land-use fetch effect.                          *)
(*                                                                         *)
(* pc of a request:                                                        *)
(*   "timer"     setTimeout(run, 250) is pending                           *)
(*   "cleared"   the cleanup cleared the timer: run never starts           *)
(*   "fetching"  a network call of fetchOverpassWithBackoff is in flight   *)
(*   "sleeping"  await sleep(backoff) after a failed attempt               *)
(*   "discarded" run returned on an AbortError without calling onDataUpdate*)
(*   "ok"        run delivered the kept parcels                            *)
(*   "failed"    run caught another error and delivered the empty list     *)
(***************************************************************************)
NoResult == "none"

Active == {"timer", "fetching", "sleeping"}

Terminal == {"cleared", "discarded", "ok", "failed"}

maxAttempts(v) == IF v = "new" THEN maxAttemptsNew ELSE maxAttemptsOld

NewRequest(v, p, circleBoxes) ==
    [props |-> p, circleBoxes |-> circleBoxes, key |-> CacheKey(v, p), pc |-> "timer", aborted |-> FALSE,
     attempt |-> 0, endpointIdx |-> 0, sent |-> <<>>, resp |-> NoResult,
     result |-> NoResult]

\* clearTimeout(t): a timer that has not fired never fires.
TimerKeepsRunning(r) == r

ClearTimeout(r) == IF r.pc = "timer" THEN [r EXCEPT !.pc = "cleared"] ELSE r

AbortDoesNothing(r) == r

\* controller.abort(): the signal is aborted; a fetch in flight rejects with an
\* AbortError, which fetchOverpassWithBackoff rethrows (signal aborted) and run
\* swallows (e.name === "AbortError").
AbortController(r) ==
    [r EXCEPT !.aborted = TRUE,
              !.pc = IF @ = "fetching" THEN "discarded" ELSE @]

\* The cleanup the effect returns: clearTimeout(t); controller.abort().
CleanupReq(r) == AbortController(ClearTimeout(r))

\* if (abortRef.current) abortRef.current.abort();
AbortPrevious(rs, ref) ==
    IF ref = 0 THEN rs ELSE [rs EXCEPT ![ref] = AbortController(@)]

\* What the effect body does before it creates a request:
\*   "skip"    returns without calling onDataUpdate (older copy only)
\*   "empty"   calls onDataUpdate([]) and returns
\*   "request" goes on to create a controller and schedule run
EffectGuard(v, p) ==
    IF v = "new"
    THEN IF p.tags \cap LANDUSE_COLORS = {} THEN "empty"
         ELSE IF bboxAroundCenters(p.pts, p.r).none THEN "empty"
         ELSE "request"
    ELSE IF p.pts = <<>> \/ p.r = 0 THEN "skip"
         ELSE IF p.r <= 0 THEN "skip"
         ELSE IF p.tags \cap LANDUSE_COLORS = {} THEN "empty"
         ELSE "request"

\* One call of onDataUpdate: by which request (0: the effect body itself), whether
\* that request's controller was aborted when it called, and the parcels it passed.
Update(id, wasAborted, parcels) == [req |-> id, stale |-> wasAborted, parcels |-> parcels]

\* The effect: the previous run's cleanup, then the body.
RunEffect(p) ==
    LET cleaned == IF curReq = 0 THEN reqs
                   ELSE [reqs EXCEPT ![curReq] = CleanupReq(@)]
        guard == EffectGuard(variant, p)
        id == Len(reqs) + 1
        memo == IF variant = "new" THEN UseMemo(circleMemo, p) ELSE circleMemo
    IN /\ props' = p
       /\ circleMemo' = memo
       /\ effectRuns' = effectRuns + 1
       /\ IF guard = "request"
          THEN /\ reqs' = Append(AbortPrevious(cleaned, abortRef), NewRequest(variant, p, ClosureCircles(variant, memo, p)))
               /\ abortRef' = id
               /\ curReq' = id
               /\ updates' = updates
          ELSE /\ reqs' = cleaned
               /\ abortRef' = abortRef
               /\ curReq' = 0
               /\ updates' = IF guard = "empty"
                             THEN updates \cup {Update(0, FALSE, {})}
                             ELSE updates
       /\ UNCHANGED <<pureVars, hookVars, variant, mounted, overpassCache>>

\* The effect of the first render.
Mount ==
    /\ mounted
    /\ effectRuns = 0
    /\ RunEffect(props)

\* A render with changed dependencies (searchRadiusKm, supplyCircleCenters,
\* landuseToggles, ...): the effect runs again.
Rerender(p) ==
    /\ mounted
    /\ effectRuns > 0
    /\ effectRuns < MaxEffectRuns
    /\ RunEffect(p)

\* Unmount: the cleanup of the last effect run.
Unmount ==
    /\ mounted
    /\ effectRuns > 0
    /\ mounted' = FALSE
    /\ reqs' = IF curReq = 0 THEN reqs ELSE [reqs EXCEPT ![curReq] = CleanupReq(@)]
    /\ curReq' = 0
    /\ UNCHANGED <<pureVars, hookVars, variant, props, abortRef, overpassCache, updates, effectRuns, circleMemo>>

\* overpassCache.has(cacheKey)
CacheNeverHits(cache, key) == FALSE

CacheHas(cache, key) == key \in DOMAIN cache

\* overpassCache.set(cacheKey, gj)
CacheSetEvicts(cache, key, g) == [k \in {key} |-> g]

CacheSet(cache, key, g) ==
    [k \in DOMAIN cache \cup {key} |-> IF k = key THEN g ELSE cache[k]]

\* OVERPASS_ENDPOINTS[endpointIdx % OVERPASS_ENDPOINTS.length], as an index from 0.
EndpointOf(endpointIdx) == endpointIdx % NumEndpoints

\* endpointIdx++ in the catch block.
NoRotation(endpointIdx) == endpointIdx

NextEndpointIdx(endpointIdx) == endpointIdx + 1

\* The loop condition: attempt < maxAttempts.
OneAttemptTooMany(v, attempt) == attempt <= maxAttempts(v)

LoopContinues(v, attempt) == attempt < maxAttempts(v)

\* The value fetchOverpassWithBackoff returns after a successful attempt.
ReturnOf(cache, key, g) == g

\* The timer fires: run starts, fetchOverpassWithBackoff looks the key up and, on a
\* miss, issues attempt 0.
TimerFire(id) ==
    /\ id \in 1..Len(reqs)
    /\ reqs[id].pc = "timer"
    /\ LET r == reqs[id]
       IN IF CacheHas(overpassCache, r.key)
          THEN /\ reqs' = [reqs EXCEPT ![id].pc = "ok",
                                       ![id].result = overpassCache[r.key]]
               /\ updates' = updates \cup
                    {Update(id, r.aborted, Kept(overpassCache[r.key], r.props, r.circleBoxes))}
          ELSE /\ reqs' = [reqs EXCEPT ![id].pc = "fetching",
                                       ![id].sent = Append(@, EndpointOf(r.endpointIdx))]
               /\ updates' = updates
    /\ UNCHANGED <<pureVars, hookVars, variant, mounted, props, abortRef, curReq, overpassCache, effectRuns, circleMemo>>

\* The network call in flight answers 2xx with a document: it is cached and returned,
\* run filters it and delivers the kept parcels.
FetchOk(id, g) ==
    /\ id \in 1..Len(reqs)
    /\ reqs[id].pc = "fetching"
    /\ LET r == reqs[id]
           gj == ReturnOf(overpassCache, r.key, g)
       IN /\ overpassCache' = CacheSet(overpassCache, r.key, g)
          /\ reqs' = [reqs EXCEPT ![id].pc = "ok", ![id].resp = g, ![id].result = gj]
          /\ updates' = updates \cup
               {Update(id, r.aborted, IF gj = NoResult THEN {} ELSE Kept(gj, r.props, r.circleBoxes))}
    /\ UNCHANGED <<pureVars, hookVars, variant, mounted, props, abortRef, curReq, effectRuns, circleMemo>>

\* The network call in flight fails (transport error, non-2xx, unreadable body) while
\* the signal is not aborted: the catch block rotates the endpoint and sleeps.
FetchFail(id) ==
    /\ id \in 1..Len(reqs)
    /\ reqs[id].pc = "fetching"
    /\ reqs' = [reqs EXCEPT ![id].pc = "sleeping",
                            ![id].endpointIdx = NextEndpointIdx(@)]
    /\ UNCHANGED <<pureVars, hookVars, variant, mounted, props, abortRef, curReq, overpassCache, updates,
                   effectRuns, circleMemo>>

\* The backoff sleep ends (sleep does not listen to the signal): the loop goes on to
\* the next attempt, or ends and the terminal error is thrown.  A fetch issued with
\* an aborted signal rejects at once with an AbortError and makes no network call.
SleepDone(id) ==
    /\ id \in 1..Len(reqs)
    /\ reqs[id].pc = "sleeping"
    /\ LET r == reqs[id]
           attempt == r.attempt + 1
       IN IF LoopContinues(variant, attempt)
          THEN /\ reqs' = IF r.aborted
                          THEN [reqs EXCEPT ![id].attempt = attempt,
                                            ![id].pc = "discarded"]
                          ELSE [reqs EXCEPT ![id].attempt = attempt,
                                            ![id].pc = "fetching",
                                            ![id].sent = Append(@, EndpointOf(r.endpointIdx))]
               /\ updates' = updates
          ELSE /\ reqs' = [reqs EXCEPT ![id].attempt = attempt, ![id].pc = "failed"]
               /\ updates' = updates \cup {Update(id, r.aborted, {})}
    /\ UNCHANGED <<pureVars, hookVars, variant, mounted, props, abortRef, curReq, overpassCache, effectRuns, circleMemo>>

\* The dataset hooks are not part of this specification: their state is held fixed.
HooksIdle ==
    /\ hook = "none"
    /\ hmounted = FALSE
    /\ hargs = [url |-> "", extras |-> <<>>, sel |-> ""]
    /\ hstate = [loading |-> TRUE, error |-> "", rows |-> {}, index |-> {},
                 byKey |-> [k \in {} |-> {}]]
    /\ loads = <<>>
    /\ curLoad = 0
    /\ cacheByUrl = [u \in {} |-> {}]
    /\ promiseByUrl = {}
    /\ hookRuns = 0
    /\ net = [u \in {} |-> 0]

InitMap ==
    /\ HooksIdle
    /\ PureIdle
    /\ variant \in Variants
    /\ mounted = TRUE
    /\ props \in PropsSet
    /\ abortRef = 0
    /\ curReq = 0
    /\ reqs = <<>>
    /\ overpassCache = [k \in {} |-> NoResult]
    /\ updates = {}
    /\ effectRuns = 0
    /\ circleMemo = NoMemo

NextMap ==
    \/ Mount
    \/ \E p \in PropsSet : Rerender(p)
    \/ Unmount
    \/ \E id \in 1..MaxEffectRuns : TimerFire(id)
    \/ \E id \in 1..MaxEffectRuns, g \in Responses : FetchOk(id, g)
    \/ \E id \in 1..MaxEffectRuns : FetchFail(id)
    \/ \E id \in 1..MaxEffectRuns : SleepDone(id)

SpecMap == InitMap /\ [][NextMap]_vars

\* Timers fire, network calls settle and sleeps end.
FairSpecMap ==
    /\ SpecMap
    /\ \A id \in 1..MaxEffectRuns :
         /\ WF_vars(TimerFire(id))
         /\ WF_vars(FetchFail(id) \/ \E g \in Responses : FetchOk(id, g))
         /\ WF_vars(SleepDone(id))

(***************************************************************************)
(* Claims about Part I.                                                    *)
(***************************************************************************)

\* C1: a request whose controller has been aborted never calls onDataUpdate
\* afterwards, neither with parcels nor with the empty list.
C1_CancelledNeverUpdates == \A u \in updates : ~u.stale

\* C2: at most one network request that has not been aborted is in flight, and every
\* earlier request's controller is aborted before a request issues its first
\* network call.
C2_OneLiveRequest ==
    /\ Cardinality({i \in 1..Len(reqs) : reqs[i].pc = "fetching" /\ ~reqs[i].aborted}) <= 1
    /\ \A i, j \in 1..Len(reqs) :
         (i < j /\ reqs[j].sent # <<>>) => reqs[i].aborted

C2_Witness ==
    /\ Len(reqs) >= 2
    /\ reqs[1].sent # <<>>
    /\ reqs[1].aborted
    /\ reqs[2].pc = "fetching"
    /\ ~reqs[2].aborted

\* C3: fetchOverpassWithBackoff always terminates: every request reaches a terminal
\* state, no request makes more than maxAttempts network calls (4, and 5 in the older
\* copy), and the terminal error is raised after exactly maxAttempts calls.
C3_Terminates ==
    /\ \A id \in 1..MaxEffectRuns :
         (Len(reqs) >= id) ~> (Len(reqs) >= id /\ reqs[id].pc \in Terminal)
    /\ [](\A i \in 1..Len(reqs) :
            /\ variant = "new" => Len(reqs[i].sent) <= 4
            /\ variant = "old" => Len(reqs[i].sent) <= 5
            /\ reqs[i].pc = "failed" =>
                 /\ variant = "new" => Len(reqs[i].sent) = 4
                 /\ variant = "old" => Len(reqs[i].sent) = 5)

C3_Witness ==
    \E i \in 1..Len(reqs) :
        /\ reqs[i].pc = "failed"
        /\ ~reqs[i].aborted
        /\ variant = "new"
        /\ Len(reqs[i].sent) = 4

\* C4: attempt k (from 0) goes to endpoint k mod 3; when three attempts fail and the
\* fourth succeeds the call returns the fourth attempt's response, and the four
\* attempts have visited each of the three endpoints.
C4_RotationAndResult ==
    \A i \in 1..Len(reqs) :
        LET r == reqs[i]
        IN /\ \A k \in 1..Len(r.sent) : r.sent[k] = (k - 1) % 3
           /\ (r.pc = "ok" /\ Len(r.sent) = 4) =>
                /\ r.resp \in Responses
                /\ r.result = r.resp
                /\ {r.sent[k] : k \in 1..4} = {0, 1, 2}

C4_Witness ==
    \E i \in 1..Len(reqs) :
        /\ variant = "new"
        /\ reqs[i].pc = "ok"
        /\ Len(reqs[i].sent) = 4

\* C5: a call whose cache key equals the key of an earlier successful call returns
\* the earlier response and makes no network call.
C5_CacheShortCircuits ==
    \A i, j \in 1..Len(reqs) :
        (/\ i < j
         /\ reqs[i].key = reqs[j].key
         /\ reqs[i].pc = "ok"
         /\ reqs[j].pc \notin {"timer", "cleared"})
        => /\ reqs[j].sent = <<>>
           /\ reqs[j].pc = "ok"
           /\ reqs[j].result = reqs[i].result

C5_Witness ==
    /\ Len(reqs) >= 2
    /\ reqs[1].key = reqs[2].key
    /\ reqs[1].props # reqs[2].props
    /\ reqs[1].pc = "ok"
    /\ reqs[1].sent # <<>>
    /\ reqs[2].pc = "ok"
    /\ reqs[2].sent = <<>>

(***************************************************************************)
(* Part II: the dataset hooks of useLocationsData.js.                      *)
(*                                                                         *)
(* The file keeps two copies of each hook.  "index1", "group1", "many1"    *)
(* are useCountryProvinceIndex, useLocationGroup and useManyGenericPoints  *)
(* of the first copy (fetchCsv with an AbortController); "index2",         *)
(* "group2", "many2" are those of the second copy (loadCSV with the        *)
(* module-level caches and a `cancelled` flag).                            *)
(***************************************************************************)
MaxLoads == 2

Hooks == {"index1", "group1", "many1", "index2", "group2", "many2"}

FirstCopy == {"index1", "group1", "many1"}

\* The rows the server holds for a dataset url; region stands for the normalized
\* (country, province) pair of a row.
Rows(url) ==
    CASE url = "wtp"  -> {[id |-> 1, region |-> "R1"], [id |-> 2, region |-> "R2"]}
      [] url = "wtpB" -> {[id |-> 3, region |-> "R1"]}
      [] url = "a"    -> {[id |-> 4, region |-> "R1"], [id |-> 5, region |-> "R3"]}
      [] url = "b"    -> {[id |-> 6, region |-> "R2"]}
      [] OTHER        -> {}

\* The arguments a render can pass: the primary url, the auxiliary datasets (key and
\* url are the same name) and the selected region.
ArgsSet ==
    { [url |-> "wtp",  extras |-> <<"a", "b">>, sel |-> "R1"],
      [url |-> "wtp",  extras |-> <<"a", "b">>, sel |-> "R2"],
      [url |-> "wtpB", extras |-> <<"a">>,      sel |-> "R1"],
      [url |-> "",     extras |-> <<>>,         sel |-> "R1"] }

\* The dependency list of the hook's effect.
Deps(h, a) ==
    CASE h = "index1" -> <<a.url, a.extras>>
      [] h = "index2" -> <<a.url>>
      [] h \in {"group1", "group2"} -> <<a.url, a.sel>>
      [] OTHER -> <<a.extras, a.sel>>

SeqRange(q) == {q[i] : i \in 1..Len(q)}

\* The urls a load fetches, in order.
Plan(h, a) ==
    CASE h = "index1" -> (IF a.url # "" THEN <<a.url>> ELSE <<>>) \o a.extras
      [] h \in {"group1", "index2", "group2"} -> <<a.url>>
      [] OTHER -> a.extras

ErrMsg == "Failed to load CSV"

EmptyByKey == [k \in {} |-> {}]

\* The country -> provinces index built from the rows of the loaded datasets.
IndexOf(urls) == {r.region : r \in UNION {Rows(u) : u \in urls}}

\* The rows of a dataset that match the selected region.
FilterRows(url, sel) == {r \in Rows(url) : r.region = sel}

ByKeyOf(urls, sel) == [k \in urls |-> FilterRows(k, sel)]

\* A load of the effect.  queue: the urls still to fetch one after the other (first
\* copy); waiting: the urls whose loadCSV promise is awaited (second copy); got, bad:
\* the urls that loaded and that failed; outcome: "success" (the try block ended),
\* "error" (the catch block wrote an error), "silent" (ended without writing);
\* writes: how often the load wrote its terminal state; staleWrite: it wrote after
\* its cleanup had run.
NewLoad(h, a) ==
    [args |-> a, cancelled |-> FALSE, pc |-> "running",
     queue |-> IF h \in FirstCopy THEN Plan(h, a) ELSE <<>>,
     waiting |-> {}, got |-> {}, bad |-> {}, outcome |-> "none", writes |-> 0,
     staleWrite |-> FALSE]

FinishSuccess(l) ==
    [l EXCEPT !.pc = "done", !.outcome = "success", !.writes = @ + 1,
              !.staleWrite = l.cancelled]

FinishError(l) ==
    [l EXCEPT !.pc = "done", !.outcome = "error", !.writes = @ + 1,
              !.staleWrite = l.cancelled]

FinishSilent(l) == [l EXCEPT !.pc = "done", !.outcome = "silent"]

\* ---- state writes, hook by hook ----

\* useCountryProvinceIndex, first copy: setState on success and in the catch block.
Index1Success(st, l) ==
    [st EXCEPT !.loading = FALSE, !.error = "", !.index = IndexOf(l.got)]

Index1Error(st, l) == [st EXCEPT !.loading = FALSE, !.error = ErrMsg, !.index = {}]

\* useLocationGroup, first copy.
Group1Start(st) == [st EXCEPT !.loading = TRUE, !.error = ""]

Group1Success(st, l) ==
    [st EXCEPT !.rows = FilterRows(l.args.url, l.args.sel), !.loading = FALSE]

Group1ErrorKeepsLoading(st, l) == [st EXCEPT !.error = ErrMsg, !.rows = {}]

Group1Error(st, l) == [st EXCEPT !.error = ErrMsg, !.rows = {}, !.loading = FALSE]

\* useManyGenericPoints, first copy.
Many1Start(st) == [st EXCEPT !.loading = TRUE, !.error = "", !.byKey = EmptyByKey]

Many1Success(st, l) ==
    [st EXCEPT !.loading = FALSE, !.error = "", !.byKey = ByKeyOf(l.got, l.args.sel)]

Many1Error(st, l) ==
    [st EXCEPT !.loading = FALSE, !.error = ErrMsg, !.byKey = EmptyByKey]

\* Second copy: setLoading(true); setError("") at the start of every effect.
Copy2Start(st) == [st EXCEPT !.loading = TRUE, !.error = ""]

\* useCountryProvinceIndex, second copy: .then, .catch, .finally.
Index2Success(st, l) == [st EXCEPT !.index = IndexOf(l.got), !.loading = FALSE]

Index2Error(st, l) == [st EXCEPT !.error = ErrMsg, !.loading = FALSE]

\* useLocationGroup, second copy.
Group2Success(st, l) ==
    [st EXCEPT !.rows = FilterRows(l.args.url, l.args.sel), !.loading = FALSE]

Group2Error(st, l) == [st EXCEPT !.error = ErrMsg, !.loading = FALSE]

\* useManyGenericPoints, second copy.
Many2Success(st, l) ==
    [st EXCEPT !.byKey = ByKeyOf(l.got, l.args.sel), !.loading = FALSE]

Many2Error(st, l) == [st EXCEPT !.error = ErrMsg, !.loading = FALSE]

StartWrite(h, st) ==
    CASE h = "index1" -> st
      [] h = "group1" -> Group1Start(st)
      [] h = "many1"  -> Many1Start(st)
      [] OTHER        -> Copy2Start(st)

SuccessWrite(h, st, l) ==
    CASE h = "index1" -> Index1Success(st, l)
      [] h = "group1" -> Group1Success(st, l)
      [] h = "many1"  -> Many1Success(st, l)
      [] h = "index2" -> Index2Success(st, l)
      [] h = "group2" -> Group2Success(st, l)
      [] OTHER        -> Many2Success(st, l)

ErrorWrite(h, st, l) ==
    CASE h = "index1" -> Index1Error(st, l)
      [] h = "group1" -> Group1Error(st, l)
      [] h = "many1"  -> Many1Error(st, l)
      [] h = "index2" -> Index2Error(st, l)
      [] h = "group2" -> Group2Error(st, l)
      [] OTHER        -> Many2Error(st, l)

\* ---- the effect and its cleanup ----

\* useCountryProvinceIndex, first copy: the loop over the auxiliary datasets, whose
\* inner try/catch ignores every error of fetchCsv.
InExtrasLoop(h, l) == h = "index1" /\ Len(l.queue) <= Len(l.args.extras)

\* controller.abort() of the first copy: the fetch in flight rejects with an
\* AbortError.  In the auxiliary loop of the index hook the inner catch ignores it,
\* every remaining fetchCsv rejects the same way, and the load goes on to build and
\* publish its index; elsewhere the outer catch returns (signal aborted).
AbortLoad1(h, l) ==
    IF l.pc # "running" THEN [l EXCEPT !.cancelled = TRUE]
    ELSE IF InExtrasLoop(h, l)
         THEN FinishSuccess([l EXCEPT !.cancelled = TRUE,
                                      !.bad = @ \cup SeqRange(l.queue),
                                      !.queue = <<>>])
         ELSE FinishSilent([l EXCEPT !.cancelled = TRUE])

\* The cleanup of the second copy: cancelled = true.
CancelLoad2(l) == [l EXCEPT !.cancelled = TRUE]

CleanupLoad(h, l) == IF h \in FirstCopy THEN AbortLoad1(h, l) ELSE CancelLoad2(l)

\* loadCSV answers without a fetch: no url, or the url is in _cacheByUrl.
Ready(u) == u = "" \/ u \in DOMAIN cacheByUrl

\* loadCSV shares the load in flight: _promiseByUrl.has(url).
NoPromiseCheck(u) == FALSE

HasPromise(u) == u \in promiseByUrl

\* The `!cancelled &&` guard of the second copy's handlers.
MayWrite2(l) == ~l.cancelled

\* One run of the effect with arguments a: the cleanup of the previous run, the
\* synchronous body of the new run, then the continuations of the aborted load.
RunHookEffect(a) ==
    LET h == hook
        old == IF curLoad = 0 THEN loads
               ELSE [loads EXCEPT ![curLoad] = CleanupLoad(h, @)]
        oldWrote == IF curLoad = 0 THEN FALSE
                    ELSE old[curLoad].writes > loads[curLoad].writes
        fresh == NewLoad(h, a)
        needed == SeqRange(Plan(h, a))
        ready == {u \in needed : Ready(u)}
        started == IF h \in FirstCopy THEN fresh
                   ELSE [fresh EXCEPT !.got = ready, !.waiting = needed \ ready]
        immediate == IF h \in FirstCopy THEN started.queue = <<>>
                     ELSE started.waiting = {}
        new == IF immediate THEN FinishSuccess(started) ELSE started
        toFetch == IF h \in FirstCopy THEN {}
                   ELSE {u \in started.waiting : ~HasPromise(u)}
        st1 == StartWrite(h, hstate)
        st2 == IF immediate THEN SuccessWrite(h, st1, started) ELSE st1
        st3 == IF oldWrote THEN SuccessWrite(h, st2, old[curLoad]) ELSE st2
    IN /\ hargs' = a
       /\ hookRuns' = hookRuns + 1
       /\ loads' = Append(old, new)
       /\ curLoad' = Len(loads) + 1
       /\ hstate' = st3
       /\ promiseByUrl' = IF h \in FirstCopy THEN promiseByUrl
                          ELSE promiseByUrl \cup started.waiting
       /\ net' = [u \in DOMAIN net |-> IF u \in toFetch THEN net[u] + 1 ELSE net[u]]
       /\ UNCHANGED <<pureVars, mapVars, hook, hmounted, cacheByUrl>>

\* The effect of the first render.
HMount ==
    /\ hmounted
    /\ hookRuns = 0
    /\ RunHookEffect(hargs)

\* A render whose arguments change the effect's dependencies.
HRerender(a) ==
    /\ hmounted
    /\ hookRuns > 0
    /\ hookRuns < MaxLoads
    /\ Deps(hook, a) # Deps(hook, hargs)
    /\ RunHookEffect(a)

\* Unmount: the cleanup of the last effect run.  React drops a state update of an
\* unmounted component, so the returned state is left as it is.
HUnmount ==
    /\ hmounted
    /\ hookRuns > 0
    /\ hmounted' = FALSE
    /\ loads' = IF curLoad = 0 THEN loads
                ELSE [loads EXCEPT ![curLoad] = CleanupLoad(hook, @)]
    /\ curLoad' = 0
    /\ UNCHANGED <<pureVars, mapVars, hook, hargs, hstate, cacheByUrl, promiseByUrl, hookRuns,
                   net>>

\* ---- first copy: fetchCsv, one dataset after the other ----

\* The fetchCsv in flight of load id answers: its rows are kept and the load goes on
\* to the next dataset, or ends and writes its result.
H1FetchOk(id) ==
    /\ hook \in FirstCopy
    /\ id \in 1..Len(loads)
    /\ loads[id].pc = "running"
    /\ loads[id].queue # <<>>
    /\ LET l == loads[id]
           l2 == [l EXCEPT !.got = @ \cup {Head(l.queue)}, !.queue = Tail(@)]
       IN IF l2.queue = <<>>
          THEN /\ loads' = [loads EXCEPT ![id] = FinishSuccess(l2)]
               /\ hstate' = SuccessWrite(hook, hstate, l2)
          ELSE /\ loads' = [loads EXCEPT ![id] = l2]
               /\ hstate' = hstate
    /\ UNCHANGED <<pureVars, mapVars, hook, hmounted, hargs, curLoad, cacheByUrl, promiseByUrl,
                   hookRuns, net>>

\* The fetchCsv in flight of load id fails (transport error or non-2xx) while the
\* signal is not aborted: ignored in the index hook's auxiliary loop, otherwise the
\* catch block writes the error state.
H1FetchFail(id) ==
    /\ hook \in FirstCopy
    /\ id \in 1..Len(loads)
    /\ loads[id].pc = "running"
    /\ loads[id].queue # <<>>
    /\ LET l == loads[id]
           l2 == [l EXCEPT !.bad = @ \cup {Head(l.queue)}, !.queue = Tail(@)]
       IN IF InExtrasLoop(hook, l)
          THEN IF l2.queue = <<>>
               THEN /\ loads' = [loads EXCEPT ![id] = FinishSuccess(l2)]
                    /\ hstate' = SuccessWrite(hook, hstate, l2)
               ELSE /\ loads' = [loads EXCEPT ![id] = l2]
                    /\ hstate' = hstate
          ELSE /\ loads' = [loads EXCEPT ![id] = FinishError(l2)]
               /\ hstate' = ErrorWrite(hook, hstate, l2)
    /\ UNCHANGED <<pureVars, mapVars, hook, hmounted, hargs, curLoad, cacheByUrl, promiseByUrl,
                   hookRuns, net>>

\* ---- second copy: loadCSV with _cacheByUrl and _promiseByUrl ----

\* What the settling of url u does to a load that awaits it.
Settled2(l, u, ok) ==
    IF l.pc = "running" /\ u \in l.waiting
    THEN IF ok
         THEN LET l2 == [l EXCEPT !.got = @ \cup {u}, !.waiting = @ \ {u}]
              IN IF l2.waiting # {} THEN l2
                 ELSE IF MayWrite2(l2) THEN FinishSuccess(l2) ELSE FinishSilent(l2)
         ELSE LET l2 == [l EXCEPT !.bad = @ \cup {u}, !.waiting = @ \ {u}]
              IN IF MayWrite2(l2) THEN FinishError(l2) ELSE FinishSilent(l2)
    ELSE l

\* The state after the handlers of the loads have run, in registration order.
RECURSIVE ApplyWrites(_, _, _, _, _)
ApplyWrites(h, st, olds, news, i) ==
    IF i > Len(olds) THEN st
    ELSE LET st2 == IF news[i].writes > olds[i].writes
                    THEN IF news[i].outcome = "success"
                         THEN SuccessWrite(h, st, news[i])
                         ELSE ErrorWrite(h, st, news[i])
                    ELSE st
         IN ApplyWrites(h, st2, olds, news, i + 1)

\* The fetch of url u answers: the rows are cached, the promise is dropped, and the
\* handlers of every load that awaits u run.
NetOk(u) ==
    /\ u \in promiseByUrl
    /\ net[u] > 0
    /\ net' = [net EXCEPT ![u] = @ - 1]
    /\ promiseByUrl' = promiseByUrl \ {u}
    /\ cacheByUrl' = [k \in DOMAIN cacheByUrl \cup {u} |->
                        IF k = u THEN Rows(u) ELSE cacheByUrl[k]]
    /\ LET news == [i \in 1..Len(loads) |-> Settled2(loads[i], u, TRUE)]
       IN /\ loads' = news
          /\ hstate' = ApplyWrites(hook, hstate, loads, news, 1)
    /\ UNCHANGED <<pureVars, mapVars, hook, hmounted, hargs, curLoad, hookRuns>>

\* The fetch of url u fails: the promise is dropped and rejects.
NetFail(u) ==
    /\ u \in promiseByUrl
    /\ net[u] > 0
    /\ net' = [net EXCEPT ![u] = @ - 1]
    /\ promiseByUrl' = promiseByUrl \ {u}
    /\ LET news == [i \in 1..Len(loads) |-> Settled2(loads[i], u, FALSE)]
       IN /\ loads' = news
          /\ hstate' = ApplyWrites(hook, hstate, loads, news, 1)
    /\ UNCHANGED <<pureVars, mapVars, hook, hmounted, hargs, curLoad, cacheByUrl, hookRuns>>

Urls == {"wtp", "wtpB", "a", "b"}

\* LandUseMap is not part of this specification: its state is held fixed.
MapIdle ==
    /\ variant = "new"
    /\ mounted = FALSE
    /\ props = [tags |-> {}, pts |-> <<>>, r |-> 0]
    /\ abortRef = 0
    /\ curReq = 0
    /\ reqs = <<>>
    /\ overpassCache = [k \in {} |-> NoResult]
    /\ updates = {}
    /\ effectRuns = 0
    /\ circleMemo = NoMemo

InitHooks ==
    /\ MapIdle
    /\ PureIdle
    /\ net = [u \in Urls |-> 0]
    /\ hook \in Hooks
    /\ hmounted = TRUE
    /\ hargs \in ArgsSet
    /\ hstate = [loading |-> TRUE, error |-> "", rows |-> {}, index |-> {},
                 byKey |-> EmptyByKey]
    /\ loads = <<>>
    /\ curLoad = 0
    /\ cacheByUrl = [u \in {} |-> {}]
    /\ promiseByUrl = {}
    /\ hookRuns = 0

NextHooks ==
    \/ HMount
    \/ \E a \in ArgsSet : HRerender(a)
    \/ HUnmount
    \/ \E id \in 1..MaxLoads : H1FetchOk(id)
    \/ \E id \in 1..MaxLoads : H1FetchFail(id)
    \/ \E u \in Urls : NetOk(u)
    \/ \E u \in Urls : NetFail(u)

SpecHooks == InitHooks /\ [][NextHooks]_vars

(***************************************************************************)
(* Claims about Part II.                                                   *)
(***************************************************************************)

\* C6: every load that is started and not superseded ends in exactly one terminal
\* state: once it has settled it has written once, loading is false, the error is
\* empty after a success and non-empty after a failure.
C6_OneTerminalState ==
    /\ \A i \in 1..Len(loads) : loads[i].writes <= 1
    /\ (hmounted /\ curLoad # 0 /\ loads[curLoad].pc = "done") =>
         LET l == loads[curLoad]
         IN /\ l.writes = 1
            /\ l.outcome \in {"success", "error"}
            /\ hstate.loading = FALSE
            /\ l.outcome = "success" => hstate.error = ""
            /\ l.outcome = "error" => hstate.error # ""

C6_Witness ==
    /\ hmounted
    /\ curLoad = 2
    /\ loads[curLoad].pc = "done"
    /\ loads[curLoad].outcome = "error"
    /\ loads[curLoad].bad # {}
    /\ hstate.loading = FALSE

\* C7: after its cleanup has run, a load never writes the hook's state.
C7_NoStaleWrite == \A i \in 1..Len(loads) : ~loads[i].staleWrite

\* C8: when an auxiliary dataset fails while the primary dataset loads,
\* useCountryProvinceIndex builds the index from every dataset that loaded and
\* surfaces the failure to the caller.
C8_AuxFailureSurfaced ==
    (/\ hook = "index1"
     /\ hmounted
     /\ curLoad # 0
     /\ loads[curLoad].pc = "done"
     /\ loads[curLoad].args.url \in loads[curLoad].got
     /\ loads[curLoad].bad # {})
    => /\ hstate.index = IndexOf(loads[curLoad].got)
       /\ hstate.error # ""

\* C9: when an auxiliary dataset fails, useManyGenericPoints keeps in byKey the points
\* of every auxiliary dataset that loaded and reports the failure.
C9_ManyKeepsLoaded ==
    (/\ hook \in {"many1", "many2"}
     /\ hmounted
     /\ curLoad # 0
     /\ loads[curLoad].pc = "done"
     /\ loads[curLoad].bad # {})
    => /\ \A k \in loads[curLoad].got :
            /\ k \in DOMAIN hstate.byKey
            /\ hstate.byKey[k] = FilterRows(k, loads[curLoad].args.sel)
       /\ hstate.error # ""

\* C10: when the primary dataset fails, useLocationGroup ends with loading false, a
\* non-empty error and no rows exposed, neither of the failed request nor of an
\* earlier selection.
C10_PrimaryFailure ==
    (/\ hook \in {"group1", "group2"}
     /\ hmounted
     /\ curLoad # 0
     /\ loads[curLoad].pc = "done"
     /\ loads[curLoad].outcome = "error")
    => /\ hstate.loading = FALSE
       /\ hstate.error # ""
       /\ hstate.rows = {}

(***************************************************************************)
(* Further claims about Parts I and II.                                    *)
(***************************************************************************)

\* What the caller of LandUseMap receives from a call of onDataUpdate: the parcel
\* list, and nothing else.
OnDataUpdateArg(u) == u.parcels

\* The deliveries that are not the failure of a request: by the effect body (nothing
\* enabled, no bounding box) and by a request that succeeded.
NormalDeliveries == {u \in updates : u.req = 0 \/ reqs[u.req].pc = "ok"}

\* C11: when a request that was not cancelled ends with the terminal error, the
\* effect delivers the empty parcel list, throws nothing, and reports the failure to
\* its caller: what the caller receives differs from what it receives when there
\* are no parcels without a failure.
C11_FailureReported ==
    \A i \in 1..Len(reqs) :
        (reqs[i].pc = "failed" /\ ~reqs[i].aborted) =>
            /\ \E u \in updates : u.req = i /\ OnDataUpdateArg(u) = {}
            /\ \A u \in updates, w \in NormalDeliveries :
                 u.req = i => OnDataUpdateArg(u) # OnDataUpdateArg(w)

\* Either part of the program, each from its initial state.
InitAll == InitMap \/ InitHooks

NextAll == NextMap \/ NextHooks

SpecAll == InitAll /\ [][NextAll]_vars

\* A step in which a geodata request fails, is aborted or is discarded.
RequestFailsOrAborts ==
    \E i \in 1..Len(reqs) :
        \/ reqs[i].pc # reqs'[i].pc /\ reqs'[i].pc \in {"sleeping", "failed", "discarded", "cleared"}
        \/ ~reqs[i].aborted /\ reqs'[i].aborted

\* A step in which a dataset load fails or is cancelled.
LoadFailsOrCancels ==
    \E i \in 1..Len(loads) :
        \/ loads'[i].bad # loads[i].bad
        \/ ~loads[i].cancelled /\ loads'[i].cancelled

\* C12: the entries of overpassCache and of _cacheByUrl are insert-only: no step
\* replaces or removes the value of a key, and a step in which a request fails or is
\* aborted adds no entry.
C12_CachesInsertOnly ==
    [][/\ \A k \in DOMAIN overpassCache :
            k \in DOMAIN overpassCache' /\ overpassCache'[k] = overpassCache[k]
       /\ \A u \in DOMAIN cacheByUrl :
            u \in DOMAIN cacheByUrl' /\ cacheByUrl'[u] = cacheByUrl[u]
       /\ \A i \in 1..Len(reqs) :
            (reqs[i].pc = "fetching" /\ reqs'[i].pc = "ok") =>
                reqs[i].key \notin DOMAIN overpassCache
       /\ \A u \in DOMAIN cacheByUrl' \ DOMAIN cacheByUrl : net[u] > 0
       /\ \A u \in DOMAIN net : net[u] > 0 => u \notin DOMAIN cacheByUrl
       /\ RequestFailsOrAborts => overpassCache' = overpassCache
       /\ LoadFailsOrCancels => cacheByUrl' = cacheByUrl]_vars

C12_Witness ==
    \/ /\ Cardinality(DOMAIN overpassCache) = 1
       /\ \E i \in 1..Len(reqs) : reqs[i].pc = "failed" /\ reqs[i].key \notin DOMAIN overpassCache
    \/ /\ "a" \in DOMAIN cacheByUrl
       /\ \E i \in 1..Len(loads) : "b" \in loads[i].bad

\* C13: loadCSV has at most one network fetch per url in flight, whatever the number
\* of loads that await the url, and makes no network fetch for a url whose load has
\* succeeded.
C13_OneFetchPerUrl ==
    \A u \in DOMAIN net :
        /\ net[u] <= 1
        /\ u \in DOMAIN cacheByUrl => net[u] = 0

C13_Witness ==
    /\ Len(loads) = 2
    /\ \E u \in DOMAIN net :
         /\ net[u] = 1
         /\ u \in loads[1].waiting /\ loads[1].pc = "running"
         /\ u \in loads[2].waiting /\ loads[2].pc = "running"
    /\ \E u \in DOMAIN cacheByUrl : u \in loads[2].got

(***************************************************************************)
(* Part III: the row functions of useLocationsData.js.                     *)
(*                                                                         *)
(* A string is the sequence of its characters, one token per character:    *)
(* "F" is the letter F, "icirc" the letter i with circumflex (U+00EE),     *)
(* "circ" and "acute" the combining marks U+0302 and U+0301, "alpha",      *)
(* "kappa", ... the Greek letters, "etatonos" eta with tonos (U+03AE).     *)
(***************************************************************************)
LowerLetters == <<
    "a", "b", "c", "d", "e", "f", "g", "h", "i", "j", "k", "l", "m",
    "n", "o", "p", "q", "r", "s", "t", "u", "v", "w", "x", "y", "z",
    "icirc", "alpha", "kappa", "rho", "eta", "etatonos", "tau", "iota" >>

UpperLetters == <<
    "A", "B", "C", "D", "E", "F", "G", "H", "I", "J", "K", "L", "M",
    "N", "O", "P", "Q", "R", "S", "T", "U", "V", "W", "X", "Y", "Z",
    "Icirc", "Alpha", "Kappa", "Rho", "Eta", "Etatonos", "Tau", "Iota" >>

\* The combining marks [\u0300-\u036f].
CombiningMarks == {"circ", "acute"}

\* The Greek block [\u0370-\u03FF].
GreekLetters == {"Alpha", "alpha", "Kappa", "kappa", "Rho", "rho", "Eta", "eta",
                 "Etatonos", "etatonos", "Tau", "tau", "Iota", "iota"}

LetterIndex(c, letters) == CHOOSE i \in 1..Len(letters) : letters[i] = c

ToUpperChar(c) ==
    IF \E i \in 1..Len(LowerLetters) : LowerLetters[i] = c
    THEN UpperLetters[LetterIndex(c, LowerLetters)] ELSE c

ToLowerChar(c) ==
    IF \E i \in 1..Len(UpperLetters) : UpperLetters[i] = c
    THEN LowerLetters[LetterIndex(c, UpperLetters)] ELSE c

\* String.prototype.toUpperCase / toLowerCase
ToUpperCase(s) == [i \in 1..Len(s) |-> ToUpperChar(s[i])]

ToLowerCase(s) == [i \in 1..Len(s) |-> ToLowerChar(s[i])]

\* String.prototype.trim
RECURSIVE TrimStart(_)
TrimStart(s) == IF s # <<>> /\ Head(s) = " " THEN TrimStart(Tail(s)) ELSE s

RECURSIVE TrimEnd(_)
TrimEnd(s) ==
    IF s # <<>> /\ s[Len(s)] = " " THEN TrimEnd(SubSeq(s, 1, Len(s) - 1)) ELSE s

Trim(s) == TrimEnd(TrimStart(s))

\* Canonical decomposition of one character.
DecomposeChar(c) ==
    CASE c = "icirc"    -> <<"i", "circ">>
      [] c = "Icirc"    -> <<"I", "circ">>
      [] c = "etatonos" -> <<"eta", "acute">>
      [] c = "Etatonos" -> <<"Eta", "acute">>
      [] OTHER          -> <<c>>

\* String.prototype.normalize("NFD")
RECURSIVE NFD(_)
NFD(s) == IF s = <<>> THEN <<>> ELSE DecomposeChar(Head(s)) \o NFD(Tail(s))

(***************************************************************************)
(* JavaScript values: strings, null/undefined, and the objects and          *)
(* functions a property lookup can find on Object.prototype.               *)
(***************************************************************************)
Str(s) == [t |-> "string", s |-> s]

Undefined == [t |-> "undefined", s |-> <<>>]

NativeFunction(name) == [t |-> "function", s |-> name]

\* String(v)
StringOf(v) ==
    CASE v.t = "string"   -> v.s
      [] v.t = "function" -> <<"f", "u", "n", "c", "t", "i", "o", "n", " ">> \o v.s \o <<"(", ")", " ", "{", " ", "[", "n", "a", "t", "i", "v", "e", " ", "c", "o", "d", "e", "]", " ", "}">>
      [] OTHER            -> <<"u", "n", "d", "e", "f", "i", "n", "e", "d">>

\* Truthiness of a value: !v is true for undefined and for the empty string.
Truthy(v) == ~(v.t = "undefined" \/ (v.t = "string" /\ v.s = <<>>))

\* The properties every object literal inherits from Object.prototype.
ObjectPrototype(key) ==
    CASE key = <<"c", "o", "n", "s", "t", "r", "u", "c", "t", "o", "r">> -> NativeFunction(<<"O", "b", "j", "e", "c", "t">>)
      [] key = <<"t", "o", "S", "t", "r", "i", "n", "g">>    -> NativeFunction(<<"t", "o", "S", "t", "r", "i", "n", "g">>)
      [] key = <<"v", "a", "l", "u", "e", "O", "f">>     -> NativeFunction(<<"v", "a", "l", "u", "e", "O", "f">>)
      [] OTHER              -> Undefined

\* const COUNTRY_MAP = { FR: "France", ... }: own properties, then the prototype's.
COUNTRY_MAP(key) ==
    CASE key \in {<<"F", "R">>, <<"F", "r", "a", "n", "c", "e">>}          -> Str(<<"F", "r", "a", "n", "c", "e">>)
      [] key \in {<<"I", "T">>, <<"I", "t", "a", "l", "y">>}           -> Str(<<"I", "t", "a", "l", "y">>)
      [] key \in {<<"H", "U">>, <<"H", "u", "n", "g", "a", "r", "y">>}         -> Str(<<"H", "u", "n", "g", "a", "r", "y">>)
      [] key \in {<<"E", "L">>, <<"G", "R">>, <<"G", "r", "e", "e", "c", "e">>}     -> Str(<<"G", "r", "e", "e", "c", "e">>)
      [] OTHER                           -> ObjectPrototype(key)

\* a || b
Or(a, b) == IF Truthy(a) THEN a ELSE b

\* normalizeCountry(v)
normalizeCountry(v) ==
    IF v.t = "undefined" THEN Str(<<>>)
    ELSE LET s == Trim(StringOf(v))
             upper == ToUpperCase(s)
         IN IF s = <<>> THEN Str(<<>>)
            ELSE Or(COUNTRY_MAP(upper), Or(COUNTRY_MAP(s), Str(s)))

\* s.indexOf(" - "): the first position (from 1) of " - " in s, 0 when there is none.
IndexOfDash(s) ==
    LET hits == {i \in 1..(Len(s) - 2) : SubSeq(s, i, i + 2) = <<" ", "-", " ">>}
    IN IF hits = {} THEN 0 ELSE CHOOSE i \in hits : \A j \in hits : i <= j

\* s.replace(/^A(?=[\u0370-\u03FF])/u, Greek capital alpha)
FixLeadingA(s) ==
    IF Len(s) >= 2 /\ s[1] = "A" /\ s[2] \in GreekLetters
    THEN <<"Alpha">> \o Tail(s) ELSE s

\* .replace(/[\u0300-\u036f]/g, "")
StripMarks(s) == SelectSeq(s, LAMBDA c : c \notin CombiningMarks)

\* .replace(/[,_-]/g, " ")
PunctToSpace(s) == [i \in 1..Len(s) |-> IF s[i] \in {",", "_", "-"} THEN " " ELSE s[i]]

\* .replace(/\s+/g, " ")
RECURSIVE CollapseSpaces(_)
CollapseSpaces(s) ==
    IF Len(s) < 2 THEN s
    ELSE IF s[1] = " " /\ s[2] = " " THEN CollapseSpaces(Tail(s))
         ELSE <<Head(s)>> \o CollapseSpaces(Tail(s))

\* The key of normalizeProvinceName's lookup table: norm(x).
ProvinceKey(s) == Trim(CollapseSpaces(PunctToSpace(StripMarks(NFD(ToLowerCase(s))))))

\* const MAP = { ... } of normalizeProvinceName, for the Greek names the alphabet of
\* the model can spell, with the properties inherited from Object.prototype.
PROVINCE_MAP(key) ==
    CASE key = <<"alpha", "tau", "tau", "iota", "kappa", "eta">> -> Str(<<"A", "t", "t", "i", "c", "a">>)
      [] key = <<"kappa", "rho", "eta", "tau", "eta">>  -> Str(<<"C", "r", "e", "t", "e">>)
      [] OTHER         -> ObjectPrototype(key)

\* normalizeProvinceName(p)
normalizeProvinceName(p) ==
    IF p.t = "undefined" THEN Str(<<>>)
    ELSE LET s0 == Trim(StringOf(p))
             dashIdx == IndexOfDash(s0)
             s1 == IF dashIdx # 0 THEN Trim(SubSeq(s0, dashIdx + 3, Len(s0))) ELSE s0
             s == FixLeadingA(s1)
         IN IF s0 = <<>> THEN Str(<<>>)
            ELSE Or(PROVINCE_MAP(ProvinceKey(s)), Str(s))

\* pick(row, keys) for one key: the cell unless it is missing or blank.
pick(v) == IF v.t # "undefined" /\ Trim(StringOf(v)) # <<>> THEN v ELSE Undefined

\* a ?? b
Coalesce(a, b) == IF a.t = "undefined" THEN b ELSE a

\* normalizeRowCountryProvince(row)
normalizeRowCountryProvince(row) ==
    [row EXCEPT !.country = normalizeCountry(Coalesce(pick(row.country), Str(<<>>))),
                !.province = normalizeProvinceName(Coalesce(pick(row.province), Str(<<>>)))]

\* matchesCountryProvince(row, { country, province }), first copy.
matchesCountryProvince(row, sel) ==
    LET rowCountry == normalizeCountry(Coalesce(row.country, Str(<<>>)))
        rowProvince == normalizeProvinceName(Coalesce(row.province, Str(<<>>)))
        wantCountry == normalizeCountry(Or(sel.country, Str(<<>>)))
        wantProvince == normalizeProvinceName(Or(sel.province, Str(<<>>)))
    IN /\ ~(Truthy(wantCountry) /\ rowCountry # wantCountry)
       /\ ~(Truthy(wantProvince) /\ rowProvince # wantProvince)

\* ---- second copy ----

\* norm(v): String(v ?? "").trim()
norm(v) == Trim(StringOf(Coalesce(v, Str(<<>>))))

\* pickCountry(r), pickProvince(r): the column; a row of the model has no
\* p2green_region column, for which parseCountryProvinceFromRegion returns "".
pickCountry(r) == norm(Or(r.country, Undefined))

pickProvince(r) == norm(Or(r.province, Undefined))

ALLOWED_COUNTRIES == {<<"F", "r", "a", "n", "c", "e">>, <<"I", "t", "a", "l", "y">>, <<"H", "u", "n", "g", "a", "r", "y">>, <<"G", "r", "e", "e", "c", "e">>}

ALLOWED_COUNTRY_CODES == {<<"F", "R">>, <<"I", "T">>, <<"H", "U">>, <<"G", "R">>}

ALLOWED_COUNTRY_NAMES == {<<"f", "r", "a", "n", "c", "e">>, <<"i", "t", "a", "l", "y">>, <<"h", "u", "n", "g", "a", "r", "y">>, <<"g", "r", "e", "e", "c", "e">>}

CODE_TO_NAME(key) ==
    CASE key = <<"F", "R">> -> Str(<<"F", "r", "a", "n", "c", "e">>)
      [] key = <<"I", "T">> -> Str(<<"I", "t", "a", "l", "y">>)
      [] key = <<"H", "U">> -> Str(<<"H", "u", "n", "g", "a", "r", "y">>)
      [] key = <<"G", "R">> -> Str(<<"G", "r", "e", "e", "c", "e">>)
      [] OTHER     -> ObjectPrototype(key)

NAME_TO_CODE(key) ==
    CASE key = <<"f", "r", "a", "n", "c", "e">>  -> Str(<<"F", "R">>)
      [] key = <<"i", "t", "a", "l", "y">>   -> Str(<<"I", "T">>)
      [] key = <<"h", "u", "n", "g", "a", "r", "y">> -> Str(<<"H", "U">>)
      [] key = <<"g", "r", "e", "e", "c", "e">>  -> Str(<<"G", "R">>)
      [] OTHER          -> ObjectPrototype(key)

\* normalizeCountryToCode(value), value a string.
normalizeCountryToCode(value) ==
    LET s == Trim(value)
    IN IF s = <<>> THEN Str(<<>>)
       ELSE IF Len(s) = 2 THEN Str(ToUpperCase(s))
       ELSE Or(NAME_TO_CODE(ToLowerCase(s)), Str(<<>>))

\* displayCountry(value)
displayCountry(value) ==
    LET s == Trim(value)
    IN IF s = <<>> THEN Str(<<>>)
       ELSE IF Len(s) = 2 THEN Or(CODE_TO_NAME(ToUpperCase(s)), Str(s))
       ELSE Str(s)

\* isAllowedCountry(value)
isAllowedCountry(value) ==
    LET s == Trim(value)
    IN IF s = <<>> THEN FALSE
       ELSE IF Len(s) = 2 THEN ToUpperCase(s) \in ALLOWED_COUNTRY_CODES
       ELSE ToLowerCase(s) \in ALLOWED_COUNTRY_NAMES

\* countryMatches(rowCountry, selectedCountry)
countryMatches(rowCountry, selectedCountry) ==
    LET row == Trim(rowCountry)
        sel == Trim(selectedCountry)
        rowCode == Or(normalizeCountryToCode(row),
                      IF Len(row) = 2 THEN Str(ToUpperCase(row)) ELSE Str(<<>>))
        selCode == Or(normalizeCountryToCode(sel),
                      IF Len(sel) = 2 THEN Str(ToUpperCase(sel)) ELSE Str(<<>>))
    IN IF sel = <<>> THEN TRUE
       ELSE IF Truthy(rowCode) /\ Truthy(selCode) THEN rowCode = selCode
       ELSE ToLowerCase(row) = ToLowerCase(sel)

\* provinceMatches(rowProvince, selectedProvince)
provinceMatches(rowProvince, selectedProvince) ==
    LET a == ToLowerCase(Trim(rowProvince))
        b == ToLowerCase(Trim(selectedProvince))
    IN IF b = <<>> THEN TRUE ELSE a = b

(***************************************************************************)
(* String.prototype.localeCompare and Array.prototype.sort.                *)
(*                                                                         *)
(* localeCompare compares by collation keys: first the base characters     *)
(* without regard to case and marks, then the marks, then the case; it     *)
(* returns 0 for canonically equivalent strings, which the specification   *)
(* of the language requires.  sort is stable.                              *)
(***************************************************************************)
CollationOrder == <<" ", "_", "-", ",", "(", ")", "[", "]", "{", "}">> \o LowerLetters

Rank(c) == CHOOSE i \in 1..Len(CollationOrder) : CollationOrder[i] = ToLowerChar(c)

PrimaryKey(s) ==
    LET b == StripMarks(NFD(s)) IN [i \in 1..Len(b) |-> Rank(b[i])]

SecondaryKey(s) ==
    LET d == NFD(s)
    IN [i \in 1..Len(d) |-> CASE d[i] = "acute" -> 1 [] d[i] = "circ" -> 2 [] OTHER -> 0]

TertiaryKey(s) ==
    LET b == StripMarks(NFD(s))
    IN [i \in 1..Len(b) |-> IF ToLowerChar(b[i]) # b[i] THEN 1 ELSE 0]

\* Lexicographic comparison of two sequences of numbers: -1, 0 or 1.
RECURSIVE CompareKeys(_, _)
CompareKeys(a, b) ==
    IF a = <<>> THEN (IF b = <<>> THEN 0 ELSE -1)
    ELSE IF b = <<>> THEN 1
    ELSE IF Head(a) < Head(b) THEN -1
    ELSE IF Head(a) > Head(b) THEN 1
    ELSE CompareKeys(Tail(a), Tail(b))

\* a.localeCompare(b)
localeCompare(a, b) ==
    LET c1 == CompareKeys(PrimaryKey(a), PrimaryKey(b))
        c2 == CompareKeys(SecondaryKey(a), SecondaryKey(b))
        c3 == CompareKeys(TertiaryKey(a), TertiaryKey(b))
    IN IF c1 # 0 THEN c1 ELSE IF c2 # 0 THEN c2 ELSE c3

\* One step of a stable sort: x goes behind the elements that do not sort after it.
RECURSIVE InsertSorted(_, _)
InsertSorted(x, sorted) ==
    IF sorted = <<>> THEN <<x>>
    ELSE IF localeCompare(Head(sorted), x) <= 0
         THEN <<Head(sorted)>> \o InsertSorted(x, Tail(sorted))
         ELSE <<x>> \o sorted

\* list.sort((a, b) => a.localeCompare(b))
RECURSIVE SortStrings(_)
SortStrings(list) ==
    IF list = <<>> THEN <<>>
    ELSE InsertSorted(list[Len(list)], SortStrings(SubSeq(list, 1, Len(list) - 1)))

(***************************************************************************)
(* The index of useCountryProvinceIndex, built from the rows.              *)
(***************************************************************************)
\* set.add(x) on a Set in insertion order.
SetAdd(set, x) == IF \E i \in 1..Len(set) : set[i] = x THEN set ELSE Append(set, x)

\* provincesByCountry[c].add(p), provincesByCountry in insertion order of its keys.
AddProvince(acc, c, p) ==
    IF \E i \in 1..Len(acc) : acc[i].country = c
    THEN [i \in 1..Len(acc) |->
            IF acc[i].country = c
            THEN [acc[i] EXCEPT !.provinces = SetAdd(@, p)] ELSE acc[i]]
    ELSE Append(acc, [country |-> c, provinces |-> <<p>>])

\* A row contributes, first copy: country allowed and province not empty.
Contributes1(row) ==
    /\ row.country.t = "string"
    /\ row.country.s \in ALLOWED_COUNTRIES
    /\ Truthy(row.province)

\* A row contributes, second copy.
Contributes2(r) ==
    /\ pickCountry(r) # <<>>
    /\ pickProvince(r) # <<>>
    /\ isAllowedCountry(pickCountry(r))

\* The loop over allRows, first copy.
RECURSIVE Accumulate1(_, _)
Accumulate1(rows, acc) ==
    IF rows = <<>> THEN acc
    ELSE LET row == normalizeRowCountryProvince(Head(rows))
         IN Accumulate1(Tail(rows),
                        IF Contributes1(row)
                        THEN AddProvince(acc, row.country.s, row.province.s) ELSE acc)

\* The loop over rows, second copy.
RECURSIVE Accumulate2(_, _)
Accumulate2(rows, acc) ==
    IF rows = <<>> THEN acc
    ELSE LET r == Head(rows)
         IN Accumulate2(Tail(rows),
                        IF Contributes2(r)
                        THEN AddProvince(acc, displayCountry(pickCountry(r)).s, pickProvince(r))
                        ELSE acc)

\* The sorted country list with each country's sorted province list.
SortedIndex(acc) ==
    LET countries == SortStrings([i \in 1..Len(acc) |-> acc[i].country])
        provincesOf(c) == (CHOOSE e \in {acc[i] : i \in 1..Len(acc)} : e.country = c).provinces
    IN [i \in 1..Len(countries) |->
          [country |-> countries[i], provinces |-> SortStrings(provincesOf(countries[i]))]]

\* The index the hook publishes for the rows of its datasets, copy 1 or 2.
BuildIndex(copy, rows) ==
    SortedIndex(IF copy = 1 THEN Accumulate1(rows, <<>>) ELSE Accumulate2(rows, <<>>))

(***************************************************************************)
(* Coordinates.  A coordinate cell is missing, empty, a numeral (its value *)
(* in tenths of a degree) or some other text; a location cell is missing   *)
(* or the list of the parts between its commas.                            *)
(***************************************************************************)
NoCell == [k |-> "absent", n |-> 0]

EmptyCell == [k |-> "empty", n |-> 0]

NumCell(n) == [k |-> "num", n |-> n]

TextCell == [k |-> "text", n |-> 0]

NoLocation == [k |-> "absent", parts |-> <<>>]

Loc(parts) == [k |-> "parts", parts |-> parts]

\* A number, or null.
NullNum == [ok |-> FALSE, n |-> 0]

Num(n) == [ok |-> TRUE, n |-> n]

NoCoords == [lat |-> NullNum, lon |-> NullNum]

\* toNum(x), first copy: null for a missing or blank cell and for text.
toNum1(c) == IF c.k = "num" THEN Num(c.n) ELSE NullNum

\* toNum(v), second copy: Number(String(v).replace(",", ".")); Number("") is 0.
toNum2(c) ==
    CASE c.k = "num"   -> Num(c.n)
      [] c.k = "empty" -> Num(0)
      [] OTHER         -> NullNum

\* The location cell as a string is empty.
BlankLocation(loc) == loc.k = "absent" \/ loc.parts = <<EmptyCell>>

\* parseLatLon(row), first copy.
parseLatLon(row) ==
    LET lat0 == toNum1(row.lat)
        lon0 == toNum1(row.lon)
        parts == SelectSeq(row.location.parts, LAMBDA c : c.k # "empty")
        a == toNum1(parts[1])
        b == toNum1(parts[2])
        fromLocation ==
            IF (~lat0.ok \/ ~lon0.ok) /\ row.location.k # "absent" /\ Len(parts) >= 2
            THEN IF a.ok /\ b.ok
                 THEN IF Abs(a.n) <= 900 /\ Abs(b.n) <= 1800 THEN [lat |-> a, lon |-> b]
                      ELSE IF Abs(b.n) <= 900 /\ Abs(a.n) <= 1800 THEN [lat |-> b, lon |-> a]
                      ELSE [lat |-> lat0, lon |-> lon0]
                 ELSE [lat |-> lat0, lon |-> lon0]
            ELSE [lat |-> lat0, lon |-> lon0]
    IN IF ~fromLocation.lat.ok \/ ~fromLocation.lon.ok THEN NoCoords
       ELSE IF fromLocation.lat.n = 0 /\ fromLocation.lon.n = 0 THEN NoCoords
       ELSE fromLocation

\* parseLatLonFromLocation(location), second copy.
parseLatLonFromLocation(loc) ==
    IF BlankLocation(loc) THEN NoCoords
    ELSE IF Len(loc.parts) < 2 THEN NoCoords
    ELSE [lat |-> toNum2(loc.parts[1]), lon |-> toNum2(loc.parts[2])]

\* pickLat(r), pickLon(r), second copy: the column, else the location.
pickLat(r) == IF toNum2(r.lat).ok THEN toNum2(r.lat) ELSE parseLatLonFromLocation(r.location).lat

pickLon(r) == IF toNum2(r.lon).ok THEN toNum2(r.lon) ELSE parseLatLonFromLocation(r.location).lon

\* The coordinates a hook resolves for a row, copy 1 or 2.
Coordinates(copy, r) ==
    IF copy = 1 THEN parseLatLon(r) ELSE [lat |-> pickLat(r), lon |-> pickLon(r)]

\* The hook keeps the row: lat == null || lon == null drops it.
HasCoordinates(copy, r) == Coordinates(copy, r).lat.ok /\ Coordinates(copy, r).lon.ok

\* The region filter of the hooks.
MatchesSelection(copy, r, sel) ==
    IF copy = 1 THEN matchesCountryProvince(normalizeRowCountryProvince(r), sel)
    ELSE /\ countryMatches(pickCountry(r), norm(sel.country))
         /\ provinceMatches(pickProvince(r), norm(sel.province))

\* The rows useLocationGroup and useManyGenericPoints deliver for a selection, each
\* with its resolved coordinates.
DeliveredRows(copy, rows, sel) ==
    LET kept == SelectSeq(rows, LAMBDA r : MatchesSelection(copy, r, sel) /\ HasCoordinates(copy, r))
    IN [i \in 1..Len(kept) |->
          [row |-> kept[i], lat |-> Coordinates(copy, kept[i]).lat.n,
           lon |-> Coordinates(copy, kept[i]).lon.n]]

(***************************************************************************)
(* The production total of useLocationGroup.  A row may have the columns   *)
(* production and n_kg_per_year, in kg.                                    *)
(***************************************************************************)
\* row[k] != null && String(row[k]).trim() !== ""
NonBlank(c) == c.k \in {"num", "text"}

\* First copy: toNum(pick(r, [..., "n_kg_per_year", ..., "production", ...])) || 0.
Production1(r) ==
    LET c == IF NonBlank(r.n_kg_per_year) THEN r.n_kg_per_year
             ELSE IF NonBlank(r.production) THEN r.production ELSE NoCell
    IN IF toNum1(c).ok THEN toNum1(c).n ELSE 0

\* Second copy: toNum(r.production) ?? ... ?? toNum(r.n_kg_per_year) ?? 0.
pickProduction(r) ==
    IF toNum2(r.production).ok THEN toNum2(r.production).n
    ELSE IF toNum2(r.n_kg_per_year).ok THEN toNum2(r.n_kg_per_year).n ELSE 0

\* What a delivered row adds to the total.
ProductionOf(copy, r) == IF copy = 1 THEN Production1(r) ELSE pickProduction(r)

RECURSIVE SumProduction(_, _)
SumProduction(copy, delivered) ==
    IF delivered = <<>> THEN 0
    ELSE ProductionOf(copy, Head(delivered).row) + SumProduction(copy, Tail(delivered))

\* totalProduction of the rows the hook holds after loading rows under a selection.
totalProduction(copy, rows, sel) == SumProduction(copy, DeliveredRows(copy, rows, sel))

(***************************************************************************)
(* Inputs of the row functions.                                            *)
(***************************************************************************)
MaxRows == 2

Copies == {1, 2}

CountryInputs ==
    { Undefined, Str(<<>>), Str(<<"F", "R">>), Str(<<"f", "r">>), Str(<<"F", "r", "a", "n", "c", "e">>), Str(<<"f", "r", "a", "n", "c", "e">>), Str(<<" ", "F", "r", "a", "n", "c", "e", " ">>),
      Str(<<"E", "L">>), Str(<<"G", "R">>), Str(<<"G", "r", "e", "e", "c", "e">>), Str(<<"I", "T">>), Str(<<"G", "e", "r", "m", "a", "n", "y">>), Str(<<"D", "E">>),
      Str(<<"c", "o", "n", "s", "t", "r", "u", "c", "t", "o", "r">>), Str(<<"t", "o", "S", "t", "r", "i", "n", "g">>), Str(<<"v", "a", "l", "u", "e", "O", "f">>) }

IleDeFranceNFC == <<"Icirc", "l", "e", "-", "d", "e", "-", "F", "r", "a", "n", "c", "e">>

IleDeFranceNFD == <<"I", "circ", "l", "e", "-", "d", "e", "-", "F", "r", "a", "n", "c", "e">>

CoordCells == {NoCell, EmptyCell, NumCell(0), NumCell(455), NumCell(2000), TextCell}

Locations ==
    { NoLocation,
      Loc(<<EmptyCell>>),
      Loc(<<NumCell(455)>>),
      Loc(<<NumCell(455), NumCell(100)>>),
      Loc(<<NumCell(1000), NumCell(455)>>),
      Loc(<<NumCell(455), NumCell(2000)>>),
      Loc(<<NumCell(0), NumCell(0)>>),
      Loc(<<EmptyCell, EmptyCell>>) }

Row(country, province, lat, lon, location) ==
    [country |-> country, province |-> province, lat |-> lat, lon |-> lon,
     location |-> location]

\* The row (FR, Ile-de-France with its accent and hyphens).
RowCodeAccented ==
    Row(Str(<<"F", "R">>), Str(IleDeFranceNFC), NumCell(455), NumCell(100), NoLocation)

\* The row (France, ile de france).
RowNamePlain ==
    Row(Str(<<"F", "r", "a", "n", "c", "e">>), Str(<<"i", "l", "e", " ", "d", "e", " ", "f", "r", "a", "n", "c", "e">>), NumCell(455), NumCell(100), NoLocation)

\* The selection (France, Ile-de-France with its accent and hyphens).
SelectAccented == [country |-> Str(<<"F", "r", "a", "n", "c", "e">>), province |-> Str(IleDeFranceNFC)]

RowSet ==
    { RowCodeAccented,
      RowNamePlain,
      Row(Str(<<"F", "r", "a", "n", "c", "e">>), Str(IleDeFranceNFD), EmptyCell, EmptyCell, NoLocation),
      Row(Str(<<"f", "r", "a", "n", "c", "e">>), Str(<<"A", "l", "s", "a", "c", "e">>), NumCell(0), NumCell(0), NoLocation),
      Row(Str(<<"G", "e", "r", "m", "a", "n", "y">>), Str(<<"B", "a", "y", "e", "r", "n">>), NumCell(455), NumCell(100), NoLocation),
      Row(Str(<<"I", "T">>), Str(<<>>), NoCell, NoCell, Loc(<<NumCell(455), NumCell(100)>>)),
      Row(Str(<<"E", "L">>), Str(<<"Kappa", "rho", "etatonos", "tau", "eta">>), NumCell(455), NumCell(100), NoLocation),
      Row(Str(<<"I", "T">>), Str(<<"L", "a", "z", "i", "o">>), NumCell(2000), NumCell(455), NoLocation) }

Selections ==
    { SelectAccented,
      [country |-> Str(<<"F", "R">>), province |-> Str(<<>>)],
      [country |-> Str(<<>>), province |-> Str(<<>>)] }

RowLists == UNION {[1..n -> RowSet] : n \in 1..MaxRows}

(***************************************************************************)
(* Calls of the row functions.                                             *)
(***************************************************************************)
OthersIdle == MapIdle /\ HooksIdle

CallNormalizeCountry(x) ==
    /\ fn = "none"
    /\ fn' = "normalizeCountry"
    /\ arg' = x
    /\ out' = [once |-> normalizeCountry(x), twice |-> normalizeCountry(normalizeCountry(x))]
    /\ UNCHANGED <<mapVars, hookVars>>

CallBuildIndex(copy, rows) ==
    /\ fn = "none"
    /\ fn' = "buildIndex"
    /\ arg' = [copy |-> copy, rows |-> rows]
    /\ out' = BuildIndex(copy, rows)
    /\ UNCHANGED <<mapVars, hookVars>>

CallDeliveredRows(copy, rows, sel) ==
    /\ fn = "none"
    /\ fn' = "deliveredRows"
    /\ arg' = [copy |-> copy, rows |-> rows, sel |-> sel]
    /\ out' = DeliveredRows(copy, rows, sel)
    /\ UNCHANGED <<mapVars, hookVars>>

CallCoordinates(copy, lat, lon, location) ==
    /\ fn = "none"
    /\ fn' = "coordinates"
    /\ arg' = [copy |-> copy, row |-> Row(Undefined, Undefined, lat, lon, location)]
    /\ out' = Coordinates(copy, Row(Undefined, Undefined, lat, lon, location))
    /\ UNCHANGED <<mapVars, hookVars>>

(***************************************************************************)
(* Calls of the production total.                                          *)
(***************************************************************************)
WithProduction(r, p, n) ==
    [country |-> r.country, province |-> r.province, lat |-> r.lat, lon |-> r.lon,
     location |-> r.location, production |-> p, n_kg_per_year |-> n]

\* A row of France whose coordinate cells hold text.
RowNoCoords == Row(Str(<<"F", "R">>), Str(IleDeFranceNFC), TextCell, TextCell, NoLocation)

\* A row of Germany.
RowGermany == Row(Str(<<"D", "E">>), Str(<<"B", "a", "y", "e", "r", "n">>), NumCell(455), NumCell(100), NoLocation)

ProductionCells == {NoCell, EmptyCell, TextCell, NumCell(500), NumCell(-500)}

ProductionRows ==
    { WithProduction(r, p, n) : r \in {RowCodeAccented, RowNoCoords, RowGermany},
                                p \in ProductionCells, n \in {NoCell, NumCell(250)} }

ProductionRowLists == UNION {[1..n -> ProductionRows] : n \in 1..MaxRows}

ProductionSelections == {SelectAccented, [country |-> Str(<<>>), province |-> Str(<<>>)]}

CallTotalProduction(copy, rows, sel) ==
    /\ fn = "none"
    /\ fn' = "totalProduction"
    /\ arg' = [copy |-> copy, rows |-> rows, sel |-> sel]
    /\ out' = [total |-> totalProduction(copy, rows, sel)]
    /\ UNCHANGED <<mapVars, hookVars>>

(***************************************************************************)
(* splitCSVLine.  A line is a sequence of characters.                      *)
(***************************************************************************)
DQ == "\""

Comma == ","

\* The for loop of splitCSVLine from index i on.
RECURSIVE splitFrom(_, _, _, _, _)
splitFrom(line, i, cur, inQuotes, acc) ==
    IF i > Len(line) THEN Append(acc, cur)
    ELSE LET ch == line[i]
         IN IF ch = DQ /\ i + 1 <= Len(line) /\ line[i + 1] = DQ
            THEN splitFrom(line, i + 2, Append(cur, DQ), inQuotes, acc)
            ELSE IF ch = DQ
            THEN splitFrom(line, i + 1, cur, ~inQuotes, acc)
            ELSE IF ch = Comma /\ ~inQuotes
            THEN splitFrom(line, i + 1, <<>>, inQuotes, Append(acc, cur))
            ELSE splitFrom(line, i + 1, Append(cur, ch), inQuotes, acc)

splitCSVLine(line) == splitFrom(line, 1, <<>>, FALSE, <<>>)

\* A field written in double quotes, its quotes doubled.
RECURSIVE Doubled(_)
Doubled(f) ==
    IF f = <<>> THEN <<>>
    ELSE (IF Head(f) = DQ THEN <<DQ, DQ>> ELSE <<Head(f)>>) \o Doubled(Tail(f))

QuoteField(f) == <<DQ>> \o Doubled(f) \o <<DQ>>

\* The quoted fields joined with commas.
RECURSIVE WriteLine(_)
WriteLine(fields) ==
    IF Len(fields) = 1 THEN QuoteField(fields[1])
    ELSE QuoteField(Head(fields)) \o <<Comma>> \o WriteLine(Tail(fields))

MaxFieldLen == 2

MaxFields == 2

Fields == UNION {[1..n -> {"a", Comma, DQ}] : n \in 0..MaxFieldLen}

FieldLists == UNION {[1..n -> Fields] : n \in 1..MaxFields}

CallSplitCSVLine(fields) ==
    /\ fn = "none"
    /\ fn' = "splitCSVLine"
    /\ arg' = [fields |-> fields, line |-> WriteLine(fields)]
    /\ out' = splitCSVLine(WriteLine(fields))
    /\ UNCHANGED <<mapVars, hookVars>>

(***************************************************************************)
(* Calls of the catchment functions of LandUseMap.  A radius is a number   *)
(* (in metres) or one of the values of searchRadiusKm that are not finite. *)
(***************************************************************************)
Radius(n) == [k |-> "num", n |-> n]

NaNRadius == [k |-> "nan", n |-> 0]

InfiniteRadius == [k |-> "inf", n |-> 0]

\* Number.isFinite(km) && km > 0
PositiveFinite(x) == x.k = "num" /\ x.n > 0

\* Number.isFinite(km) && km > 0 ? km : 0, and searchRadiusKm || 0 for NaN.
NumberOrZero(x) == IF x.k = "num" THEN x.n ELSE 0

\* buildCircleBBoxes for any radius value: [] unless the radius is finite.
CircleBoxesFor(centers, x) ==
    IF x.k # "num" THEN <<>> ELSE buildCircleBBoxes(centers, x.n)

\* centroidInsideAnyCircle for any radius value: false unless the radius is finite.
InsideAnyCircle(f, circleBoxes, x) ==
    x.k = "num" /\ centroidInsideAnyCircle(f, circleBoxes, x.n)

\* The circle list of the effect's closure when the previous render had the props
\* prev: toFixed(2) of an infinite radius is in no key of a finite one.
MemoAfter(prev, centers, x) ==
    IF x.k = "inf" THEN CircleBoxesFor(centers, x)
    ELSE UseMemo(UseMemo(NoMemo, prev), [pts |-> centers, r |-> NumberOrZero(x)]).boxes

\* What the effect delivers for a response: the empty list without a bounding box,
\* else the parcels its filter keeps (every land-use type enabled).
Delivered(g, centers, circleBoxes, x) ==
    IF centers = <<>> THEN {}
    ELSE {f.id : f \in {y \in Features(g) :
                          /\ y.gtype \in {"Polygon", "MultiPolygon"}
                          /\ InsideAnyCircle(y, circleBoxes, x)
                          /\ y.area > 0}}

CenterSets == {<<>>, <<PtA>>, <<PtA, PtB>>}

RadiusInputs == {Radius(2000), Radius(0), Radius(-1000), NaNRadius, InfiniteRadius}

\* Props of an earlier render.
PreviousProps ==
    { [pts |-> <<>>, r |-> 2000], [pts |-> <<PtA>>, r |-> 2],
      [pts |-> <<PtA, PtB>>, r |-> 2000] }

CallCatchment(prev, centers, x, g) ==
    /\ fn = "none"
    /\ fn' = "catchment"
    /\ arg' = [centers |-> centers, radius |-> x, gj |-> g,
               circleBoxes |-> MemoAfter(prev, centers, x)]
    /\ out' = [boxes |-> CircleBoxesFor(centers, x),
               inside |-> {f.id : f \in {y \in Features(g) :
                              InsideAnyCircle(y, MemoAfter(prev, centers, x), x)}},
               delivered |-> Delivered(g, centers, MemoAfter(prev, centers, x), x)]
    /\ UNCHANGED <<mapVars, hookVars>>

(***************************************************************************)
(* The attribution of run: each kept parcel's share of totalProduction.    *)
(* A share is the exact fraction num / den; the rounding of the floating   *)
(* point division and product is left out.                                 *)
(***************************************************************************)
Quantity(n) == [k |-> "num", n |-> n]

NaNQuantity == [k |-> "nan", n |-> 0]

NoQuantity == [k |-> "undefined", n |-> 0]

ProductionInputs == {Quantity(1000), Quantity(250), Quantity(0), NaNQuantity, NoQuantity}

\* prod = Number(totalProduction || 0); older copy: Number.isFinite(totalProduction) ?
\* totalProduction : 0.
ProdOf(v, x) == IF x.k = "num" THEN x.n ELSE 0

RECURSIVE SumAreas(_)
SumAreas(fs) ==
    IF fs = {} THEN 0
    ELSE LET f == CHOOSE x \in fs : TRUE IN f.area + SumAreas(fs \ {f})

\* The area of the whole response.
TotalAreaOfResponse(g, kept) == SumAreas(Features(g))

\* totalA += a, over the kept parcels.
TotalArea(g, kept) == SumAreas(kept)

\* A share of nothing.
FertilizerZero(a, totalA, prod) == [num |-> 0, den |-> 1]

\* totalA > 0 ? (p.properties.area / totalA) * prod : 0
Fertilizer(a, totalA, prod) ==
    IF totalA > 0 THEN [num |-> a * prod, den |-> totalA] ELSE [num |-> 0, den |-> 1]

\* The parcels run delivers, each with its area and its share.
Attribution(v, g, p, x) ==
    LET kept == {f \in Features(g) : f.id \in Kept(g, p, buildCircleBBoxes(p.pts, p.r))}
    IN {[id |-> f.id, area |-> f.area,
         fertilizer |-> Fertilizer(f.area, TotalArea(g, kept), ProdOf(v, x))] : f \in kept}

CallAttribution(v, g, p, x) ==
    /\ fn = "none"
    /\ fn' = "attribution"
    /\ arg' = [variant |-> v, gj |-> g, props |-> p, totalProduction |-> x]
    /\ out' = Attribution(v, g, p, x)
    /\ UNCHANGED <<mapVars, hookVars>>

\* The call returns; the next one starts from scratch.
Return ==
    /\ fn # "none"
    /\ fn' = "none"
    /\ arg' = <<>>
    /\ out' = <<>>
    /\ UNCHANGED <<mapVars, hookVars>>

InitPure == OthersIdle /\ PureIdle

NextPure ==
    \/ \E x \in CountryInputs : CallNormalizeCountry(x)
    \/ \E copy \in Copies, rows \in RowLists : CallBuildIndex(copy, rows)
    \/ \E copy \in Copies, rows \in RowLists, sel \in Selections :
         CallDeliveredRows(copy, rows, sel)
    \/ \E copy \in Copies, lat \in CoordCells, lon \in CoordCells, location \in Locations :
         CallCoordinates(copy, lat, lon, location)
    \/ \E prev \in PreviousProps, centers \in CenterSets, x \in RadiusInputs, g \in Responses :
         CallCatchment(prev, centers, x, g)
    \/ \E v \in Variants, g \in Responses, p \in PropsSet, x \in ProductionInputs :
         CallAttribution(v, g, p, x)
    \/ \E copy \in Copies, rows \in ProductionRowLists, sel \in ProductionSelections :
         CallTotalProduction(copy, rows, sel)
    \/ \E fields \in FieldLists : CallSplitCSVLine(fields)
    \/ Return

SpecPure == InitPure /\ [][NextPure]_vars

(***************************************************************************)
(* Claims about the country -> provinces index and the row functions.      *)
(***************************************************************************)
\* The datasets the application hands to the index: the primary one and the
\* auxiliary ones.
DatasetsOf(a) == ({a.url} \cup SeqRange(a.extras)) \ {""}

\* The index hook's current load ended in success and no dataset failed.
IndexLoaded ==
    /\ hook \in {"index1", "index2"}
    /\ hmounted
    /\ curLoad # 0
    /\ loads[curLoad].pc = "done"
    /\ loads[curLoad].outcome = "success"
    /\ loads[curLoad].bad = {}

\* C14: the index is the union over the datasets: once the primary and the auxiliary
\* datasets have loaded, every region of every one of them is listed, also a region
\* that only an auxiliary dataset holds.
C14_IndexUnion ==
    IndexLoaded =>
        \A u \in DatasetsOf(loads[curLoad].args) :
            \A r \in Rows(u) : r.region \in hstate.index

\* The rows of a call that name France by its code or by its display name and have a
\* province.
FrenchRows(rows) ==
    {i \in 1..Len(rows) :
        /\ rows[i].country \in {Str(<<"F", "R">>), Str(<<"F", "r", "a", "n", "c", "e">>)}
        /\ rows[i].province.t = "string"
        /\ rows[i].province.s # <<>>}

\* C15: every country key of the index is one of the four canonical names, no listed
\* province is empty, and the rows naming a country by its code and by its display
\* name are listed under the same key.
C15_CanonicalCountryKeys ==
    fn = "buildIndex" =>
        /\ \A i \in 1..Len(out) : out[i].country \in ALLOWED_COUNTRIES
        /\ \A i \in 1..Len(out) : \A j \in 1..Len(out[i].provinces) :
               out[i].provinces[j] # <<>>
        /\ FrenchRows(arg.rows) # {} =>
               \E i \in 1..Len(out) : out[i].country = <<"F", "r", "a", "n", "c", "e">>

\* A list of strings is in the order of localeCompare and holds no string twice.
SortedNoDuplicates(list) ==
    \A i, j \in 1..Len(list) :
        i < j => localeCompare(list[i], list[j]) <= 0 /\ list[i] # list[j]

\* The same rows in another order.
Reorderings(rows) ==
    {[i \in 1..Len(rows) |-> rows[p[i]]] : p \in Permutations(1..Len(rows))}

\* C16: the index is ordered and deterministic: the countries are sorted, each country's
\* provinces are sorted, nothing is listed twice, and the same rows in any order give
\* the same index.
C16_IndexDeterministic ==
    fn = "buildIndex" =>
        /\ SortedNoDuplicates([i \in 1..Len(out) |-> out[i].country])
        /\ \A i \in 1..Len(out) : SortedNoDuplicates(out[i].provinces)
        /\ \A rows \in Reorderings(arg.rows) : BuildIndex(arg.copy, rows) = out

\* C17: normalizeCountry is idempotent: applied to its own result it returns that
\* result, whatever the input.
C17_NormalizeCountryIdempotent ==
    fn = "normalizeCountry" => out.twice = out.once

\* C18: the region filter ignores case and accents: for the selection (France,
\* Ile-de-France) the row (FR, Ile-de-France) and the row (France, ile de france) are
\* both delivered.
C18_RegionMatchFolds ==
    (fn = "deliveredRows" /\ arg.sel = SelectAccented) =>
        \A i \in 1..Len(arg.rows) :
            arg.rows[i] \in {RowCodeAccented, RowNamePlain} =>
                \E j \in 1..Len(out) : out[j].row = arg.rows[i]

\* A latitude or longitude cell of the row is empty.
HasEmptyCoordCell(r) == r.lat.k = "empty" \/ r.lon.k = "empty"

\* C19: the coordinates (0, 0) and an empty latitude or longitude cell count as no
\* coordinates: no row is delivered at (0, 0), and a row with an empty cell gets
\* coordinates only from its location cell.
C19_NoNullIsland ==
    /\ fn = "deliveredRows" =>
          \A j \in 1..Len(out) :
              /\ ~(out[j].lat = 0 /\ out[j].lon = 0)
              /\ HasEmptyCoordCell(out[j].row) => out[j].row.location.k # "absent"
    /\ fn = "coordinates" =>
          /\ out # [lat |-> Num(0), lon |-> Num(0)]
          /\ (HasEmptyCoordCell(arg.row) /\ arg.row.location.k = "absent") => out = NoCoords

\* The row has no latitude or longitude column and its location cell reads "a, b".
LocationOnly(r) ==
    /\ r.lat.k = "absent"
    /\ r.lon.k = "absent"
    /\ r.location.k = "parts"
    /\ Len(r.location.parts) = 2
    /\ \A i \in 1..2 : r.location.parts[i].k = "num"

\* The pair a location cell "a, b" stands for: (a, b) when that is a latitude and a
\* longitude, else (b, a) when that is one, else none.
RangeCheckedPair(a, b) ==
    IF Abs(a) <= 900 /\ Abs(b) <= 1800 THEN [lat |-> Num(a), lon |-> Num(b)]
    ELSE IF Abs(b) <= 900 /\ Abs(a) <= 1800 THEN [lat |-> Num(b), lon |-> Num(a)]
    ELSE NoCoords

\* C20: a location cell "a, b" resolves to (a, b) when |a| <= 90 and |b| <= 180, else to
\* (b, a) when |b| <= 90 and |a| <= 180, else to no coordinates ("45.5, 200" gives
\* none).  The pair (0, 0) is left to C19.
C20_LocationRangeChecked ==
    (/\ fn = "coordinates"
     /\ LocationOnly(arg.row)
     /\ arg.row.location.parts # <<NumCell(0), NumCell(0)>>)
    => out = RangeCheckedPair(arg.row.location.parts[1].n, arg.row.location.parts[2].n)

(***************************************************************************)
(* Claims about the catchment filter and the attribution.                  *)
(***************************************************************************)
\* C29: whenever the fetch effect filters parcels, the circle list it uses is the list
\* derived from the supply points and the radius of that effect run.
C29_CircleBoxesCurrent ==
    \A i \in 1..Len(reqs) :
        reqs[i].pc = "ok" =>
            reqs[i].circleBoxes = buildCircleBBoxes(reqs[i].props.pts, reqs[i].props.r)

\* The requests that reached fetchOverpassWithBackoff or called onDataUpdate.
Started(rs, us) ==
    {i \in 1..Len(rs) : rs[i].sent # <<>> \/ rs[i].pc \in {"fetching", "sleeping", "discarded", "ok", "failed"}
                        \/ \E u \in us : u.req = i}

\* C30: the fetch is debounced: a request whose effect is cleaned up (superseded or
\* unmounted) before its start timer fires makes no network call and never calls
\* onDataUpdate, and a request's run starts only while the request is the current one
\* of a mounted component and its controller is not aborted.
C30_Debounced ==
    [][/\ \A i \in 1..Len(reqs') :
             reqs'[i].pc = "cleared" =>
                 /\ reqs'[i].sent = <<>>
                 /\ \A u \in updates' : u.req # i
       /\ \A i \in Started(reqs', updates') \ Started(reqs, updates) :
             /\ i \in 1..Len(reqs)
             /\ reqs[i].pc = "timer"
             /\ ~reqs[i].aborted
             /\ mounted
             /\ curReq = i]_vars

\* One request was cleaned up before its timer fired and a later one sent a network
\* call.
C30_Witness ==
    \E i, j \in 1..Len(reqs) :
        /\ i < j
        /\ reqs[i].pc = "cleared"
        /\ reqs[j].sent # <<>>

\* The centroid lies in the bounding box of the circle.
InBox(c, b) ==
    /\ b.minLat <= c.lat /\ c.lat <= b.maxLat
    /\ b.minLon <= c.lon /\ c.lon <= b.maxLon

\* The feature of the service response with the given id.
FeatureOf(g, id) == CHOOSE f \in Features(g) : f.id = id

\* C26: every parcel delivered through onDataUpdate is a feature of the request's
\* response with geometry type Polygon or MultiPolygon, a land-use tag enabled in that
\* request, an area > 0 and a centroid within the radius of one of the circles.
C26_DeliveredParcels ==
    \A u \in updates : \A id \in u.parcels :
        /\ u.req \in 1..Len(reqs)
        /\ reqs[u.req].result \in Responses
        /\ \E f \in Features(reqs[u.req].result) : f.id = id
        /\ LET r == reqs[u.req]
               f == FeatureOf(r.result, id)
           IN /\ f.gtype \in {"Polygon", "MultiPolygon"}
              /\ f.lu \in r.props.tags
              /\ f.area > 0
              /\ \E k \in 1..Len(r.circleBoxes) :
                     /\ InBox(f.c, r.circleBoxes[k])
                     /\ DistSq(f.c, r.circleBoxes[k]) <= r.props.r * r.props.r

\* A response was delivered in part: some of its features were kept and others
\* were dropped.
C26_Witness ==
    \E u \in updates :
        /\ u.parcels # {}
        /\ \E f \in Features(reqs[u.req].result) : f.id \notin u.parcels

\* C21: every delivered point has a latitude in [-90, 90] and a longitude in
\* [-180, 180], whether its coordinates come from the latitude/longitude columns or from
\* the location cell.
C21_CoordinatesInRange ==
    /\ fn = "deliveredRows" =>
          \A j \in 1..Len(out) : Abs(out[j].lat) <= 900 /\ Abs(out[j].lon) <= 1800
    /\ (fn = "coordinates" /\ out.lat.ok /\ out.lon.ok) =>
          (Abs(out.lat.n) <= 900 /\ Abs(out.lon.n) <= 1800)

\* The supply point set is empty, or the radius is zero, negative or not finite.
Degenerate(centers, x) == centers = <<>> \/ ~PositiveFinite(x)

\* C24: with an empty supply point set, or a radius that is zero, negative or not
\* finite, the catchment is empty: buildCircleBBoxes returns no circle, no centroid is
\* inside a circle and the effect delivers no parcel.
C24_DegenerateCatchmentEmpty ==
    (fn = "catchment" /\ Degenerate(arg.centers, arg.radius)) =>
        /\ out.boxes = <<>>
        /\ out.inside = {}
        /\ out.delivered = {}

\* A degenerate call whose circle list, kept from the previous render, is not empty.
C24_Witness ==
    /\ fn = "catchment"
    /\ Degenerate(arg.centers, arg.radius)
    /\ arg.circleBoxes # <<>>
    /\ \E f \in Features(arg.gj) : \E k \in 1..Len(arg.circleBoxes) :
           InBox(f.c, arg.circleBoxes[k])

\* C25: membership is a union: for a finite radius > 0 a centroid is inside exactly
\* when some circle of the list has it in its bounding box and within the radius of
\* its centre, whatever the other circles are.
C25_UnionMembership ==
    (fn = "catchment" /\ PositiveFinite(arg.radius)) =>
        out.inside =
            {f.id : f \in {y \in Features(arg.gj) :
                \E k \in 1..Len(arg.circleBoxes) :
                    /\ InBox(y.c, arg.circleBoxes[k])
                    /\ DistSq(y.c, arg.circleBoxes[k]) <= arg.radius.n * arg.radius.n}}

\* Two circles, and a centroid inside one of them and outside the other.
C25_Witness ==
    /\ fn = "catchment"
    /\ PositiveFinite(arg.radius)
    /\ Len(arg.circleBoxes) = 2
    /\ \E f \in Features(arg.gj) :
           /\ f.id \in out.inside
           /\ \E k \in 1..2 : ~InBox(f.c, arg.circleBoxes[k])

\* The sum of the areas of the delivered parcels.
RECURSIVE DeliveredArea(_)
DeliveredArea(es) ==
    IF es = {} THEN 0
    ELSE LET e == CHOOSE x \in es : TRUE IN e.area + DeliveredArea(es \ {e})

\* The sum of the numerators of the delivered shares.
RECURSIVE DeliveredShares(_)
DeliveredShares(es) ==
    IF es = {} THEN 0
    ELSE LET e == CHOOSE x \in es : TRUE IN e.fertilizer.num + DeliveredShares(es \ {e})

\* C22: each delivered parcel's share is totalProduction * (its area / the sum of the
\* delivered parcels' areas); with nothing delivered nothing is divided; parcels of
\* area 300 and 700 with a total of 1000 receive 300 and 700.
C22_ProportionalShares ==
    fn = "attribution" =>
        /\ \A e \in out :
              /\ e.fertilizer.den > 0
              /\ e.fertilizer.num * DeliveredArea(out) =
                     ProdOf(arg.variant, arg.totalProduction) * e.area * e.fertilizer.den
        /\ ({e.area : e \in out} = {300, 700} /\ arg.totalProduction = Quantity(1000)) =>
              \A e \in out : e.fertilizer.num = e.area * e.fertilizer.den

\* The parcels of area 300 and 700 are delivered with a total production of 1000.
C22_Witness ==
    /\ fn = "attribution"
    /\ {e.area : e \in out} = {300, 700}
    /\ arg.totalProduction = Quantity(1000)
    /\ \E f \in Features(arg.gj) : f.id \notin {e.id : e \in out}

\* C23: when a parcel is delivered, the shares of one delivery add up to the total
\* production.
C23_SharesSumToTotal ==
    (fn = "attribution" /\ out # {}) =>
        \E d \in {e.fertilizer.den : e \in out} :
            /\ \A e \in out : e.fertilizer.den = d
            /\ DeliveredShares(out) = ProdOf(arg.variant, arg.totalProduction) * d

\* Two parcels with different shares of a total that is not 0.
C23_Witness ==
    /\ fn = "attribution"
    /\ Cardinality(out) = 2
    /\ ProdOf(arg.variant, arg.totalProduction) > 0
    /\ \E e1, e2 \in out : e1.fertilizer.num # e2.fertilizer.num

\* The rows of a list that match the selection and have coordinates.
RECURSIVE ContributingRows(_, _, _)
ContributingRows(copy, rows, sel) ==
    IF rows = <<>> THEN <<>>
    ELSE (IF MatchesSelection(copy, Head(rows), sel) /\ HasCoordinates(copy, Head(rows))
          THEN <<Head(rows)>> ELSE <<>>) \o ContributingRows(copy, Tail(rows), sel)

RECURSIVE SumQuantities(_, _)
SumQuantities(copy, rows) ==
    IF rows = <<>> THEN 0
    ELSE ProductionOf(copy, Head(rows)) + SumQuantities(copy, Tail(rows))

\* C27: totalProduction is the sum of the quantities of the rows that match the
\* selected region and have valid coordinates, and it is never negative.
C27_TotalProduction ==
    fn = "totalProduction" =>
        /\ out.total = SumQuantities(arg.copy, ContributingRows(arg.copy, arg.rows, arg.sel))
        /\ out.total >= 0

\* C28: splitting the line written from a list of fields, each in double quotes with
\* its quotes doubled, returns the list of fields.
C28_SplitInvertsQuoting == fn = "splitCSVLine" => out = arg.fields

====
